---- MODULE Spec2Model ----
(***************************************************************************)
(* A state-machine model of import_obj.py (Wavefront OBJ importer):        *)
(* load() reading the geometry stream line by line, create_materials,      *)
(* create_armatures, split_mesh and create_mesh.                           *)
(*                                                                         *)
(* Representation of the input.  A physical line is a record               *)
(*   [start, toks, cont]                                                   *)
(* start is the directive keyword the line begins with ("" when the first  *)
(* token is data, as on a continuation line), toks are the tokens after    *)
(* the keyword (all tokens when start = ""), cont says that the last token *)
(* ends in the continuation marker '\'.  A numeric token is the sequence   *)
(* of its '/'-separated fields, a field being <<>> (empty bytes) or <<n>>  *)
(* (the decimal text of n): b'3' is <<<<3>>>>, b'1//2' is                  *)
(* <<<<1>>, <<>>, <<2>>>>.  Floats are modelled by integers.  None is "".  *)
(* An optional index (int or Ellipsis) is <<i>> or <<>>.                   *)
(***************************************************************************)
EXTENDS Integers, Sequences, FiniteSets, TLC

VARIABLES
    pc, error, obj_lines,
    use_edges, use_smooth_groups, use_split_objects, use_split_groups,
    use_groups_as_vgroups,
    verts_loc, verts_nor, verts_tex, verts_col, verts_bw,
    faces, material_libs, armature_libs, vertex_groups,
    context_material, context_smooth_group, context_object, context_vgroup,
    context_nurbs, nurbs, context_parm,
    unique_materials, unique_smooth_groups,
    context_multi_line,
    face_loc_ref, face_opt_ref,
    face_vert_nor_valid, face_vert_tex_valid, face_vert_col_valid,
    face_items_usage, vec,
    groups, g_idx, f_idx, edges, tot_loops, smooth_group_users, fgon_edges,
    new_objects,
    materials, mtl, arl, bone_names, new_armatures, lib_todo, lib_lines

optVars == <<use_edges, use_smooth_groups, use_split_objects, use_split_groups,
             use_groups_as_vgroups>>
poolVars == <<verts_loc, verts_nor, verts_tex, verts_col, verts_bw>>
libVars == <<material_libs, armature_libs>>
ctxVars == <<context_material, context_smooth_group, context_object,
             context_vgroup, unique_materials, unique_smooth_groups,
             vertex_groups>>
nurbsVars == <<context_nurbs, nurbs, context_parm>>
faceVars == <<face_loc_ref, face_opt_ref, face_vert_nor_valid,
              face_vert_tex_valid, face_vert_col_valid, face_items_usage>>
geomVars == <<groups, g_idx, f_idx, edges, tot_loops, smooth_group_users,
              fgon_edges, new_objects>>
libStateVars == <<materials, mtl, arl, bone_names, new_armatures, lib_todo,
                  lib_lines>>
meshVars == <<geomVars, libStateVars>>
parseVars == <<poolVars, faces, libVars, ctxVars, nurbsVars, faceVars,
               context_multi_line, vec>>
vars == <<pc, error, obj_lines, optVars, parseVars, meshVars>>

None == ""
Truthy(x) == x # None

(***************************************************************************)
(* Python sequence helpers.                                                *)
(***************************************************************************)
Take(s, n) == SubSeq(s, 1, IF n < Len(s) THEN n ELSE Len(s))

InRange(s, i) == i >= -Len(s) /\ i < Len(s)

PyIndex(s, i) == IF i < 0 THEN s[Len(s) + i + 1] ELSE s[i + 1]

Range(s) == {s[i] : i \in 1..Len(s)}

RemoveAtKeep(s, i) == s

RemoveAt(s, i) == SubSeq(s, 1, i - 1) \o SubSeq(s, i + 1, Len(s))

AddKey(keys, k) == IF k \in Range(keys) THEN keys ELSE Append(keys, k)

(***************************************************************************)
(* Tokens.                                                                 *)
(***************************************************************************)
Num(n) == <<<<n>>>>

IsPlainNumber(tok) == Len(tok) = 1 /\ tok[1] # <<>>

NumberOf(tok) == tok[1][1]

FieldPresent(obj_vert, k) ==
    Len(obj_vert) > k /\ obj_vert[k + 1] # <<>> /\ obj_vert[k + 1] # <<0>>

line_value(line_split_tail) ==
    IF Len(line_split_tail) = 0 THEN None
    ELSE IF Len(line_split_tail) = 1 THEN line_split_tail[1]
    ELSE LET Join[i \in 1..Len(line_split_tail)] ==
                 IF i = 1 THEN line_split_tail[1]
                 ELSE Join[i - 1] \o " " \o line_split_tail[i]
         IN Join[Len(line_split_tail)]

(***************************************************************************)
(* Index resolution of a raw 1-based or negative index token against a     *)
(* pool of the given length (lines 1263-1264, 1282-1283, 1397-1400).       *)
(***************************************************************************)
ResolveIndexOffByOne(tok, pool_len) ==
    LET idx == tok - 1 IN IF idx < 0 THEN idx + pool_len ELSE idx

ResolveIndex(tok, pool_len) ==
    LET idx == tok - 1 IN IF idx < 0 THEN idx + pool_len + 1 ELSE idx

EdgeKey(a, b) == IF a < b THEN <<a, b>> ELSE <<b, a>>

create_face(mat, sg, ob) ==
    [loc |-> <<>>, nor |-> <<>>, tex |-> <<>>, col |-> <<>>,
     mat |-> mat, sg |-> sg, ob |-> ob, inv |-> FALSE]

Raise(e) ==
    /\ pc' = "raised"
    /\ error' = e
    /\ UNCHANGED <<parseVars, meshVars>>

(***************************************************************************)
(* handle_vec: v / vn / vt / vc lines and their continuations.             *)
(***************************************************************************)
AllPlain(toks) == \A i \in 1..Len(toks) : IsPlainNumber(toks[i])

Floats(toks) == [i \in 1..Len(toks) |-> NumberOf(toks[i])]

PoolOf(tag) ==
    CASE tag = "v" -> verts_loc
      [] tag = "vn" -> verts_nor
      [] tag = "vt" -> verts_tex
      [] tag = "vc" -> verts_col

handle_vec(ln, tag, vec_len) ==
    LET ret == IF ln.cont THEN tag ELSE ""
        bad == IF ln.start = tag THEN ~AllPlain(ln.toks)
               ELSE ln.start # "" \/ ~AllPlain(ln.toks)
        newvec == IF ln.start = tag THEN Floats(ln.toks)
                  ELSE vec \o Floats(ln.toks)
        data == IF ret = "" THEN Append(PoolOf(tag), Take(newvec, vec_len))
                ELSE PoolOf(tag)
    IN IF bad THEN Raise("ValueError")
       ELSE /\ context_multi_line' = ret
            /\ vec' = newvec
            /\ verts_loc' = IF tag = "v" THEN data ELSE verts_loc
            /\ verts_nor' = IF tag = "vn" THEN data ELSE verts_nor
            /\ verts_tex' = IF tag = "vt" THEN data ELSE verts_tex
            /\ verts_col' = IF tag = "vc" THEN data ELSE verts_col
            /\ UNCHANGED <<pc, error, verts_bw, faces, libVars, ctxVars,
                           nurbsVars, faceVars, meshVars>>

(***************************************************************************)
(* handle_bw_vec (lines 1129-1141).  The text after the keyword is handed  *)
(* to ast.literal_eval: a bw line with one token carries a list literal,   *)
(* and the token is the list it denotes (a sequence of tuples of numbers); *)
(* a bw line with no token has no text after the keyword (IndexError at    *)
(* line 1139), one with several tokens or a trailing continuation marker   *)
(* is not a literal (SyntaxError at line 1140).  strip_slash is applied to *)
(* the raw line, which ends with its newline, so no continuation of a bw   *)
(* directive is ever recognised on a line followed by another.             *)
(***************************************************************************)
BwError(ln) ==
    IF ln.start # "bw" THEN "IndexError"
    ELSE IF ln.toks = <<>> THEN "IndexError"
    ELSE IF Len(ln.toks) > 1 \/ ln.cont THEN "SyntaxError"
    ELSE ""

handle_bw_vec(ln, vec_len) ==
    IF BwError(ln) # "" THEN Raise(BwError(ln))
    ELSE /\ context_multi_line' = ""
         /\ verts_bw' = Append(verts_bw, Take(ln.toks[1], vec_len))
         /\ vec' = ln.toks
         /\ UNCHANGED <<pc, error, verts_loc, verts_nor, verts_tex,
                        verts_col, faces, libVars, ctxVars, nurbsVars,
                        faceVars, meshVars>>

(***************************************************************************)
(* The f branch (lines 1243-1323).                                         *)
(***************************************************************************)
OptIndex(obj_vert, k, pool_len) ==
    IF FieldPresent(obj_vert, k)
    THEN <<ResolveIndex(obj_vert[k + 1][1], pool_len)>>
    ELSE <<>>

FaceVertex(acc, obj_vert) ==
    IF acc.err # "" THEN acc
    ELSE IF obj_vert[1] = <<>> THEN [acc EXCEPT !.err = "ValueError"]
    ELSE
    LET vert_loc_index == ResolveIndex(obj_vert[1][1], Len(verts_loc))
        suspect == ~acc.inv /\ <<vert_loc_index>> \in acc.usage
    IN [acc EXCEPT
         !.vgroups = IF use_groups_as_vgroups /\ Truthy(context_vgroup)
                     THEN [@ EXCEPT ![context_vgroup] =
                               Append(@, vert_loc_index)]
                     ELSE @,
         !.inv = @ \/ suspect,
         !.usage = IF ~acc.inv /\ ~suspect
                   THEN @ \cup {<<vert_loc_index>>} ELSE @,
         !.loc = Append(@, vert_loc_index),
         !.tex = Append(@, OptIndex(obj_vert, 1, Len(verts_tex))),
         !.tex_valid = @ \/ FieldPresent(obj_vert, 1),
         !.nor = Append(@, OptIndex(obj_vert, 2, Len(verts_nor))),
         !.nor_valid = @ \/ FieldPresent(obj_vert, 2),
         !.col = Append(@, OptIndex(obj_vert, 3, Len(verts_col))),
         !.col_valid = @ \/ FieldPresent(obj_vert, 3)]

RECURSIVE FaceVertices(_, _)
FaceVertices(acc, toks) ==
    IF toks = <<>> THEN acc
    ELSE FaceVertices(FaceVertex(acc, Head(toks)), Tail(toks))

RECURSIVE RepeatedEdge(_, _, _)
RepeatedEdge(loc, i, used) ==
    IF i > Len(loc) THEN [hit |-> FALSE, usage |-> used]
    ELSE LET prev_vidx == IF i = 1 THEN loc[Len(loc)] ELSE loc[i - 1]
             edge_key == EdgeKey(prev_vidx, loc[i])
         IN IF edge_key \in used THEN [hit |-> TRUE, usage |-> used]
            ELSE RepeatedEdge(loc, i + 1, used \cup {edge_key})

FinishFaceClearFlag(acc) ==
    LET nor == IF acc.nor_valid THEN acc.nor ELSE <<>>
        tex == IF acc.tex_valid THEN acc.tex ELSE <<>>
        col == IF acc.col_valid THEN acc.col ELSE <<>>
    IN [acc EXCEPT !.nor = nor, !.tex = tex, !.col = col,
                   !.nor_valid = FALSE, !.tex_valid = FALSE,
                   !.col_valid = FALSE, !.inv = FALSE,
                   !.usage = IF acc.inv THEN {} ELSE @]

FinishFaceByPlace(acc) ==
    LET nor == IF acc.nor_valid THEN acc.nor ELSE <<>>
        tex == IF acc.tex_valid THEN acc.tex ELSE <<>>
        col == IF acc.col_valid THEN acc.col ELSE <<>>
        loc == acc.loc
        same == \E i, j \in 1..Len(loc) :
                    /\ i < j
                    /\ InRange(verts_loc, loc[i]) /\ InRange(verts_loc, loc[j])
                    /\ PyIndex(verts_loc, loc[i]) = PyIndex(verts_loc, loc[j])
    IN [acc EXCEPT !.nor = nor, !.tex = tex, !.col = col,
                   !.nor_valid = FALSE, !.tex_valid = FALSE,
                   !.col_valid = FALSE, !.inv = same]

FinishFaceNoClear(acc) ==
    LET chk == RepeatedEdge(acc.loc, 1, {})
    IN [acc EXCEPT !.nor_valid = FALSE, !.tex_valid = FALSE,
                   !.col_valid = FALSE,
                   !.inv = IF acc.inv THEN chk.hit ELSE FALSE,
                   !.usage = IF acc.inv THEN chk.usage ELSE @]

FinishFaceDropAbsent(acc) ==
    LET Present(x) == x # <<>>
        chk == RepeatedEdge(acc.loc, 1, {})
    IN [acc EXCEPT !.nor = SelectSeq(@, Present),
                   !.tex = SelectSeq(@, Present),
                   !.col = SelectSeq(@, Present),
                   !.nor_valid = FALSE, !.tex_valid = FALSE,
                   !.col_valid = FALSE,
                   !.inv = IF acc.inv THEN chk.hit ELSE FALSE,
                   !.usage = IF acc.inv THEN chk.usage ELSE @]

FinishFaceKeepSuspect(acc) ==
    LET nor == IF acc.nor_valid THEN acc.nor ELSE <<>>
        tex == IF acc.tex_valid THEN acc.tex ELSE <<>>
        col == IF acc.col_valid THEN acc.col ELSE <<>>
    IN [acc EXCEPT !.nor = nor, !.tex = tex, !.col = col,
                   !.nor_valid = FALSE, !.tex_valid = FALSE,
                   !.col_valid = FALSE]

FinishFace(acc) ==
    LET nor == IF acc.nor_valid THEN acc.nor ELSE <<>>
        tex == IF acc.tex_valid THEN acc.tex ELSE <<>>
        col == IF acc.col_valid THEN acc.col ELSE <<>>
        chk == RepeatedEdge(acc.loc, 1, {})
    IN [acc EXCEPT !.nor = nor, !.tex = tex, !.col = col,
                   !.nor_valid = FALSE, !.tex_valid = FALSE,
                   !.col_valid = FALSE,
                   !.inv = IF acc.inv THEN chk.hit ELSE FALSE,
                   !.usage = IF acc.inv THEN chk.usage ELSE @]

HandleF(ln) ==
    LET new == context_multi_line = ""
        faces1 == IF new
                  THEN Append(faces, create_face(context_material,
                                  context_smooth_group, context_object))
                  ELSE faces
        lref == IF new THEN Len(faces1) ELSE face_loc_ref
        oref == IF new THEN Len(faces1) ELSE face_opt_ref
        ret == IF ln.cont THEN "f" ELSE ""
        acc0 == [err |-> "",
                 loc |-> faces1[lref].loc, nor |-> faces1[oref].nor,
                 tex |-> faces1[oref].tex, col |-> faces1[oref].col,
                 inv |-> faces1[oref].inv,
                 usage |-> IF new THEN {} ELSE face_items_usage,
                 nor_valid |-> face_vert_nor_valid,
                 tex_valid |-> face_vert_tex_valid,
                 col_valid |-> face_vert_col_valid,
                 vgroups |-> vertex_groups]
        acc1 == FaceVertices(acc0, ln.toks)
        acc2 == IF ret = "" THEN FinishFace(acc1) ELSE acc1
        faces2 == [faces1 EXCEPT ![oref] =
                      [@ EXCEPT !.nor = acc2.nor, !.tex = acc2.tex,
                                !.col = acc2.col, !.inv = acc2.inv]]
        faces3 == [faces2 EXCEPT ![lref] = [@ EXCEPT !.loc = acc2.loc]]
    IN IF new /\ ln.toks = <<>> /\ ~ln.cont THEN Raise("IndexError")
       ELSE IF ~new /\ ln.start # "" THEN Raise("ValueError")
       ELSE IF ~new /\ (lref = 0 \/ oref = 0) THEN Raise("AttributeError")
       ELSE IF acc1.err # "" THEN Raise(acc1.err)
       ELSE /\ faces' = faces3
            /\ face_loc_ref' = lref
            /\ face_opt_ref' = oref
            /\ context_multi_line' = ret
            /\ face_items_usage' = acc2.usage
            /\ face_vert_nor_valid' = acc2.nor_valid
            /\ face_vert_tex_valid' = acc2.tex_valid
            /\ face_vert_col_valid' = acc2.col_valid
            /\ vertex_groups' = acc2.vgroups
            /\ UNCHANGED <<pc, error, poolVars, libVars, context_material,
                           context_smooth_group, context_object,
                           context_vgroup, unique_materials,
                           unique_smooth_groups, nurbsVars, vec, meshVars>>

(***************************************************************************)
(* The l branch (lines 1325-1343).                                         *)
(***************************************************************************)
RECURSIVE LineVertices(_, _)
LineVertices(acc, toks) ==
    IF toks = <<>> \/ acc.err # "" THEN acc
    ELSE LET obj_vert == Head(toks)
         IN IF obj_vert[1] = <<>>
            THEN [acc EXCEPT !.err = "ValueError"]
            ELSE LineVertices(
                   [acc EXCEPT !.loc = Append(@,
                        ResolveIndex(obj_vert[1][1], Len(verts_loc)))],
                   Tail(toks))

HandleL(ln) ==
    LET new == context_multi_line = ""
        face == [create_face(context_material, context_smooth_group,
                             context_object) EXCEPT !.nor = <<<<1>>>>]
        faces1 == IF new THEN Append(faces, face) ELSE faces
        lref == IF new THEN Len(faces1) ELSE face_loc_ref
        ret == IF ln.cont THEN "l" ELSE ""
        acc == LineVertices([err |-> "", loc |-> faces1[lref].loc], ln.toks)
    IN IF new /\ ln.toks = <<>> /\ ~ln.cont THEN Raise("IndexError")
       ELSE IF ~new /\ ln.start # "" THEN Raise("ValueError")
       ELSE IF ~new /\ lref = 0 THEN Raise("AttributeError")
       ELSE IF acc.err # "" THEN Raise(acc.err)
       ELSE /\ faces' = [faces1 EXCEPT ![lref] = [@ EXCEPT !.loc = acc.loc]]
            /\ face_loc_ref' = lref
            /\ context_multi_line' = ret
            /\ UNCHANGED <<pc, error, poolVars, libVars, ctxVars, nurbsVars,
                           face_opt_ref, face_vert_nor_valid,
                           face_vert_tex_valid, face_vert_col_valid,
                           face_items_usage, vec, meshVars>>

(***************************************************************************)
(* Dictionaries: functions whose DOMAIN is the key set.                    *)
(***************************************************************************)
EmptyDict == [k \in {} |-> 0]

Get(d, k, default) == IF k \in DOMAIN d THEN d[k] ELSE default

Put(d, k, v) == [x \in (DOMAIN d) \cup {k} |-> IF x = k THEN v ELSE d[x]]

(***************************************************************************)
(* The curv branch (lines 1384-1402).  The continuation marker is taken as *)
(* a token of its own, as the range is read before strip_slash.            *)
(***************************************************************************)
RECURSIVE CurvIndices(_, _)
CurvIndices(curv_idx, toks) ==
    IF toks = <<>> THEN curv_idx
    ELSE LET vert_loc_index == NumberOf(Head(toks)) - 1
         IN CurvIndices(
              Append(curv_idx,
                     IF vert_loc_index < 0
                     THEN Len(verts_loc) + vert_loc_index + 1
                     ELSE vert_loc_index),
              Tail(toks))

HandleCurv(ln) ==
    LET new == context_multi_line = ""
        curv_idx == Get(context_nurbs, "curv_idx", <<>>)
        rest == IF new THEN SubSeq(ln.toks, 3, Len(ln.toks)) ELSE ln.toks
        nurbs1 == Put(context_nurbs, "curv_idx", CurvIndices(curv_idx, rest))
        nurbs2 == IF new
                  THEN Put(nurbs1, "curv_range",
                           <<NumberOf(ln.toks[1]), NumberOf(ln.toks[2])>>)
                  ELSE nurbs1
    IN IF new /\ Len(ln.toks) < 2
       THEN Raise(IF ln.cont THEN "ValueError" ELSE "IndexError")
       ELSE IF new /\ ~AllPlain(SubSeq(ln.toks, 1, 2)) THEN Raise("ValueError")
       ELSE IF new /\ rest = <<>> /\ ~ln.cont THEN Raise("IndexError")
       ELSE IF ~new /\ ln.start # "" THEN Raise("ValueError")
       ELSE IF ~AllPlain(rest) THEN Raise("ValueError")
       ELSE /\ context_nurbs' = nurbs2
            /\ context_multi_line' = IF ln.cont THEN "curv" ELSE ""
            /\ UNCHANGED <<pc, error, poolVars, faces, libVars, ctxVars,
                           nurbs, context_parm, faceVars, vec, meshVars>>

(***************************************************************************)
(* s, o, g, usemtl, mtllib, arllib (lines 1345-1379).                      *)
(***************************************************************************)
HandleS(ln) ==
    LET v == line_value(ln.toks)
        csg == IF v = "off" THEN None ELSE v
    IN /\ context_smooth_group' =
             IF use_smooth_groups THEN csg ELSE context_smooth_group
       /\ unique_smooth_groups' =
             IF use_smooth_groups /\ v # "off" /\ Truthy(v)
             THEN unique_smooth_groups \cup {v} ELSE unique_smooth_groups
       /\ UNCHANGED <<pc, error, poolVars, faces, libVars, context_material,
                      context_object, context_vgroup, unique_materials,
                      vertex_groups, nurbsVars, faceVars, context_multi_line,
                      vec, meshVars>>

HandleO(ln) ==
    /\ context_object' =
          IF use_split_objects THEN line_value(ln.toks) ELSE context_object
    /\ UNCHANGED <<pc, error, poolVars, faces, libVars, context_material,
                   context_smooth_group, context_vgroup, unique_materials,
                   unique_smooth_groups, vertex_groups, nurbsVars, faceVars,
                   context_multi_line, vec, meshVars>>

HandleG(ln) ==
    LET v == line_value(ln.toks)
        named == Truthy(v) /\ v # "(null)"
    IN /\ context_object' = IF use_split_groups THEN v ELSE context_object
       /\ context_vgroup' =
             IF ~use_split_groups /\ use_groups_as_vgroups
             THEN (IF named THEN v ELSE None) ELSE context_vgroup
       /\ vertex_groups' =
             IF ~use_split_groups /\ use_groups_as_vgroups /\ named
                /\ v \notin DOMAIN vertex_groups
             THEN Put(vertex_groups, v, <<>>) ELSE vertex_groups
       /\ UNCHANGED <<pc, error, poolVars, faces, libVars, context_material,
                      context_smooth_group, unique_materials,
                      unique_smooth_groups, nurbsVars, faceVars,
                      context_multi_line, vec, meshVars>>

HandleUsemtl(ln) ==
    /\ context_material' = line_value(ln.toks)
    /\ unique_materials' = AddKey(unique_materials, line_value(ln.toks))
    /\ UNCHANGED <<pc, error, poolVars, faces, libVars, context_smooth_group,
                   context_object, context_vgroup, unique_smooth_groups,
                   vertex_groups, nurbsVars, faceVars, context_multi_line,
                   vec, meshVars>>

HandleMtllib(ln) ==
    /\ material_libs' = material_libs \cup Range(ln.toks)
    /\ UNCHANGED <<pc, error, poolVars, faces, armature_libs, ctxVars,
                   nurbsVars, faceVars, context_multi_line, vec, meshVars>>

HandleArllib(ln) ==
    /\ armature_libs' = armature_libs \cup Range(ln.toks)
    /\ UNCHANGED <<pc, error, poolVars, faces, material_libs, ctxVars,
                   nurbsVars, faceVars, context_multi_line, vec, meshVars>>

(***************************************************************************)
(* cstype, parm, deg, end (lines 1382-1383, 1404-1430).  The first token   *)
(* of a parm line is the parameter name, a string; the others are numbers. *)
(***************************************************************************)
HandleCstype(ln) ==
    /\ context_nurbs' = Put(context_nurbs, "cstype", line_value(ln.toks))
    /\ UNCHANGED <<pc, error, poolVars, faces, libVars, ctxVars, nurbs,
                   context_parm, faceVars, context_multi_line, vec, meshVars>>

lower(name) ==
    CASE name = "U" -> "u"
      [] name = "V" -> "v"
      [] OTHER -> name

HandleParm(ln) ==
    LET new == context_multi_line = ""
        parm == IF new THEN ln.toks[1] ELSE context_parm
        rest == IF new THEN Tail(ln.toks) ELSE ln.toks
        key == IF lower(parm) = "u" THEN "parm_u" ELSE "parm_v"
        used == lower(parm) \in {"u", "v"}
    IN IF new /\ ln.toks = <<>> THEN Raise("IndexError")
       ELSE IF new /\ rest = <<>> /\ ~ln.cont THEN Raise("IndexError")
       ELSE IF used /\ ((~new /\ ln.start # "") \/ ~AllPlain(rest))
       THEN Raise("ValueError")
       ELSE /\ context_parm' = parm
            /\ context_multi_line' = IF ln.cont THEN "parm" ELSE ""
            /\ context_nurbs' =
                  IF used
                  THEN Put(context_nurbs, key,
                           Get(context_nurbs, key, <<>>) \o Floats(rest))
                  ELSE context_nurbs
            /\ UNCHANGED <<pc, error, poolVars, faces, libVars, ctxVars,
                           nurbs, faceVars, vec, meshVars>>

HandleDeg(ln) ==
    IF ~AllPlain(ln.toks) THEN Raise("ValueError")
    ELSE /\ context_nurbs' = Put(context_nurbs, "deg", Floats(ln.toks))
         /\ UNCHANGED <<pc, error, poolVars, faces, libVars, ctxVars, nurbs,
                        context_parm, faceVars, context_multi_line, vec,
                        meshVars>>

HandleEnd ==
    /\ nurbs' = Append(nurbs,
                       IF Truthy(context_object)
                       THEN Put(context_nurbs, "name", context_object)
                       ELSE context_nurbs)
    /\ context_nurbs' = EmptyDict
    /\ context_parm' = ""
    /\ UNCHANGED <<pc, error, poolVars, faces, libVars, ctxVars, faceVars,
                   context_multi_line, vec, meshVars>>

Skip == UNCHANGED <<pc, error, parseVars, meshVars>>

(***************************************************************************)
(* The if / elif chain of the parse loop (lines 1218-1430), in its order.  *)
(***************************************************************************)
Dispatch(ln) ==
    LET line_start == ln.start
        cml == context_multi_line
    IN IF ln.start = "" /\ ln.toks = <<>> /\ ~ln.cont THEN Skip
       ELSE IF line_start = "v" \/ cml = "v" THEN handle_vec(ln, "v", 3)
       ELSE IF line_start = "vn" \/ cml = "vn" THEN handle_vec(ln, "vn", 3)
       ELSE IF line_start = "vt" \/ cml = "vt" THEN handle_vec(ln, "vt", 2)
       ELSE IF line_start = "vc" \/ cml = "vc" THEN handle_vec(ln, "vc", 4)
       ELSE IF line_start = "bw" \/ cml = "bw" THEN handle_bw_vec(ln, 4)
       ELSE IF line_start = "f" \/ cml = "f" THEN HandleF(ln)
       ELSE IF use_edges /\ (line_start = "l" \/ cml = "l") THEN HandleL(ln)
       ELSE IF line_start = "s" THEN HandleS(ln)
       ELSE IF line_start = "o" THEN HandleO(ln)
       ELSE IF line_start = "g" THEN HandleG(ln)
       ELSE IF line_start = "usemtl" THEN HandleUsemtl(ln)
       ELSE IF line_start = "mtllib" THEN HandleMtllib(ln)
       ELSE IF line_start = "arllib" THEN HandleArllib(ln)
       ELSE IF line_start = "cstype" THEN HandleCstype(ln)
       ELSE IF line_start = "curv" \/ cml = "curv" THEN HandleCurv(ln)
       ELSE IF line_start = "parm" \/ cml = "parm" THEN HandleParm(ln)
       ELSE IF line_start = "deg" THEN HandleDeg(ln)
       ELSE IF line_start = "end" THEN HandleEnd
       ELSE Skip

ReadLine(ln) ==
    /\ pc = "parse"
    /\ obj_lines' = Append(obj_lines, ln)
    /\ UNCHANGED optVars
    /\ Dispatch(ln)

EndOfFile ==
    /\ pc = "parse"
    /\ pc' = "materials"
    /\ UNCHANGED <<error, obj_lines, optVars, parseVars, meshVars>>

(***************************************************************************)
(* load() before the first line is read (lines 1165-1214).                 *)
(***************************************************************************)
Options(e, sm, so, sg, vg) ==
    /\ use_edges = e
    /\ use_smooth_groups = sm
    /\ use_split_objects = so
    /\ use_split_groups = sg
    /\ use_groups_as_vgroups = (IF so \/ sg THEN FALSE ELSE vg)

MtlStart ==
    [name |-> None, mat |-> None, vars |-> {}, emit_colors |-> <<0, 0, 0>>,
     do_ambient |-> TRUE, do_highlight |-> FALSE, do_reflection |-> FALSE,
     do_transparency |-> FALSE, do_glass |-> FALSE, do_fresnel |-> FALSE,
     do_raytrace |-> FALSE]

ArlStart ==
    [bone_count |-> <<>>, read |-> "", bone_parents |-> <<>>,
     bone_heads |-> <<>>]

InitLoad ==
    /\ pc = "parse"
    /\ error = ""
    /\ obj_lines = <<>>
    /\ verts_loc = <<>> /\ verts_nor = <<>> /\ verts_tex = <<>>
    /\ verts_col = <<>> /\ verts_bw = <<>>
    /\ faces = <<>>
    /\ material_libs = {} /\ armature_libs = {}
    /\ vertex_groups = EmptyDict
    /\ context_material = None /\ context_smooth_group = None
    /\ context_object = None /\ context_vgroup = None
    /\ context_nurbs = EmptyDict /\ nurbs = <<>> /\ context_parm = ""
    /\ unique_materials = <<>> /\ unique_smooth_groups = {}
    /\ context_multi_line = ""
    /\ face_loc_ref = 0 /\ face_opt_ref = 0
    /\ face_vert_nor_valid = FALSE /\ face_vert_tex_valid = FALSE
    /\ face_vert_col_valid = FALSE
    /\ face_items_usage = {}
    /\ vec = <<>>
    /\ groups = <<>> /\ g_idx = 0 /\ f_idx = 0 /\ edges = <<>>
    /\ tot_loops = 0 /\ smooth_group_users = EmptyDict /\ fgon_edges = {}
    /\ new_objects = <<>>
    /\ materials = EmptyDict /\ mtl = MtlStart /\ arl = ArlStart
    /\ bone_names = <<>> /\ new_armatures = <<>>
    /\ lib_todo = <<>> /\ lib_lines = <<>>

(***************************************************************************)
(* Library files.  A library line has the shape of a geometry line: start  *)
(* is the lower-cased first token of a material line ("" in a skeleton     *)
(* library, whose lines have no keyword; "#" for a comment), toks the      *)
(* tokens after it.  A directory never holds the default library           *)
(* <name>.mtl / <name>.arl (lines 214-217, 500-503); a library the file    *)
(* names may exist or not.                                                 *)
(***************************************************************************)
LibOrder == <<"lib.arl", "lib.mtl">>

sorted(libs) == LET Named(n) == n \in libs IN SelectSeq(LibOrder, Named)

IsBlankOrComment(ln) ==
    (ln.start = "" /\ ln.toks = <<>>) \/ ln.start = "#"

(* The error of reading n numbers from the front of toks, "" if none.      *)
ArgError(toks, n) ==
    LET bad == {i \in 1..n : i > Len(toks) \/ ~IsPlainNumber(toks[i])}
        first == CHOOSE i \in bad : \A j \in bad : i <= j
    IN IF bad = {} THEN ""
       ELSE IF first > Len(toks) THEN "IndexError" ELSE "ValueError"

LibRaise(e) ==
    /\ pc' = "raised"
    /\ error' = e
    /\ UNCHANGED <<materials, mtl, arl, bone_names, new_armatures, lib_todo>>

(***************************************************************************)
(* create_materials (lines 74-440).  A material is the record of what the  *)
(* function assigned to it.  Of the property directives Kd, Ke, Ni, d, Tf  *)
(* and illum are modelled; values of Ni and d are not kept, only that the  *)
(* file gave one.                                                          *)
(***************************************************************************)
NewMaterial ==
    [diffuse_color |-> <<>>, emit |-> <<>>, ambient_off |-> FALSE,
     specular_one |-> FALSE, mirror_use |-> FALSE,
     use_transparency |-> FALSE, transparency_method |-> "Z_TRANSPARENCY",
     alpha |-> "default", ior |-> "default", fresnel |-> FALSE,
     use_raytrace_set |-> FALSE, textures |-> <<>>]

NewMaterials == [name \in Range(unique_materials) \ {None} |-> NewMaterial]

Sum3(t) == t[1] + t[2] + t[3]

(* Finalize previous mat (lines 259-297).                                  *)
FinalizeError(m, c) ==
    IF Sum3(c.emit_colors) > 0 /\ m.diffuse_color # <<>>
       /\ Sum3(m.diffuse_color) = 0
    THEN "ZeroDivisionError" ELSE ""

Finalize(m, c) ==
    [m EXCEPT
       !.emit = <<Sum3(c.emit_colors)>>,
       !.ambient_off = @ \/ ~c.do_ambient,
       !.specular_one = @ \/ c.do_highlight,
       !.mirror_use = @ \/ c.do_reflection,
       !.use_transparency = @ \/ c.do_transparency,
       !.transparency_method =
           IF c.do_transparency
           THEN (IF c.do_raytrace THEN "RAYTRACE" ELSE "Z_TRANSPARENCY")
           ELSE @,
       !.alpha = IF c.do_transparency /\ "alpha" \notin c.vars
                 THEN "zero" ELSE @,
       !.ior = IF c.do_glass /\ "ior" \notin c.vars THEN "1.5" ELSE @,
       !.fresnel = @ \/ c.do_fresnel,
       !.use_raytrace_set = TRUE]

(* The illum table (lines 347-402).                                        *)
IllumFlags(c, illum) ==
    [c EXCEPT
       !.do_ambient = IF illum = 0 THEN FALSE ELSE @,
       !.do_highlight = IF illum = 2 THEN TRUE ELSE @,
       !.do_reflection = IF illum \in {3, 4, 5, 6, 7, 8, 9} THEN TRUE ELSE @,
       !.do_transparency = IF illum \in {4, 6, 7, 9} THEN TRUE ELSE @,
       !.do_glass = IF illum \in {4, 9} THEN TRUE ELSE @,
       !.do_fresnel = IF illum \in {5, 7} THEN TRUE ELSE @,
       !.do_raytrace = IF illum \in {3, 4, 5, 6, 7} THEN TRUE ELSE @]

(***************************************************************************)
(* load_material_image (lines 87-211).  The tokens of a map line are       *)
(* strings; StartsWithDash lists the tokens that begin with '-', float()   *)
(* accepts the numerals.  A texture slot is the record of what the         *)
(* function set on it; the image itself is its path.                       *)
(***************************************************************************)
StartsWithDash(token) == token \in {"-o", "-s", "-bm", "-type", "-1"}

IsNumeral(token) == token \in {"-1", "0", "1", "2", "3"}

float(token) ==
    CASE token = "-1" -> -1
      [] token = "0" -> 0
      [] token = "1" -> 1
      [] token = "2" -> 2
      [] token = "3" -> 3

(* The option grouping loop (lines 94-100) over img_data[:-1].             *)
RECURSIVE map_options(_, _, _, _)
map_options(img_data, i, curr_token, opts) ==
    IF i > Len(img_data) - 1 THEN opts
    ELSE LET token == img_data[i]
             flush == StartsWithDash(token) /\ curr_token # <<>>
         IN map_options(img_data, i + 1,
               IF StartsWithDash(token) THEN <<token>>
               ELSE Append(curr_token, token),
               IF flush THEN Put(opts, Head(curr_token), Tail(curr_token))
               ELSE opts)

(* Offset and scale (lines 198-211): x, then y and z if given.             *)
MapVector(default, given) ==
    [k \in 1..3 |-> IF k <= Len(given) THEN float(given[k]) ELSE default[k]]

MapVectorError(given) ==
    IF \E k \in 1..Len(given) : k <= 3 /\ ~IsNumeral(given[k])
    THEN "ValueError" ELSE ""

MapType(id) ==
    CASE id = "map_ka" -> "Ka"
      [] id = "map_ks" -> "Ks"
      [] id = "map_kd" -> "Kd"
      [] id = "map_ke" -> "Ke"
      [] id \in {"map_kn", "map_bump", "bump"} -> "Bump"
      [] id \in {"map_d", "map_tr"} -> "D"
      [] id \in {"map_disp", "disp"} -> "disp"
      [] id \in {"map_refl", "refl"} -> "refl"
      [] OTHER -> ""

load_material_image(m, img_data, type, context_material_vars) ==
    LET opts == map_options(img_data, 1, <<>>, EmptyDict)
        map_offset == Get(opts, "-o", <<>>)
        map_scale == Get(opts, "-s", <<>>)
        bump_mult == Get(opts, "-bm", <<>>)
        err == IF MapVectorError(map_offset) # ""
               THEN MapVectorError(map_offset)
               ELSE MapVectorError(map_scale)
        mtex == [type |-> type,
                 image |-> img_data[Len(img_data)],
                 offset |-> IF err = "" THEN MapVector(<<0, 0, 0>>, map_offset)
                            ELSE <<0, 0, 0>>,
                 scale |-> IF err = "" THEN MapVector(<<1, 1, 1>>, map_scale)
                           ELSE <<1, 1, 1>>,
                 normal_factor |-> IF type = "Bump" /\ bump_mult # <<>>
                                   THEN <<bump_mult[1]>> ELSE <<>>]
        m1 == [m EXCEPT !.textures = Append(@, mtex)]
        m2 == IF type = "D"
              THEN [m1 EXCEPT
                      !.use_transparency = TRUE,
                      !.transparency_method = "Z_TRANSPARENCY",
                      !.alpha = IF "alpha" \notin context_material_vars
                                THEN "zero" ELSE @]
              ELSE m1
    IN [err |-> err, mat |-> m2]

MtlNewmtl(ln) ==
    LET context_material_name == line_value(ln.toks)
        finalize == Truthy(mtl.mat)
    IN IF finalize /\ FinalizeError(materials[mtl.mat], mtl) # ""
       THEN LibRaise(FinalizeError(materials[mtl.mat], mtl))
       ELSE /\ materials' =
                 IF finalize
                 THEN [materials EXCEPT ![mtl.mat] = Finalize(@, mtl)]
                 ELSE materials
            /\ mtl' = [MtlStart EXCEPT
                         !.name = context_material_name,
                         !.mat = IF context_material_name \in DOMAIN materials
                                 THEN context_material_name ELSE None]
            /\ UNCHANGED <<pc, error, arl, bone_names, new_armatures,
                           lib_todo>>

MtlProperty(ln) ==
    LET id == ln.start
        n == IF id \in {"kd", "ke"} THEN 3
             ELSE IF id \in {"ni", "d", "illum"} THEN 1 ELSE 0
        m == materials[mtl.mat]
        img == IF MapType(id) # "" /\ ln.toks # <<>>
               THEN load_material_image(m, ln.toks, MapType(id), mtl.vars)
               ELSE [err |-> "", mat |-> m]
        err == IF MapType(id) # "" THEN img.err ELSE ArgError(ln.toks, n)
        m1 == IF MapType(id) # "" THEN img.mat
              ELSE IF id = "kd"
              THEN [m EXCEPT !.diffuse_color = Take(Floats(ln.toks), 3)]
              ELSE IF id = "ni" THEN [m EXCEPT !.ior = "file"]
              ELSE IF id = "d"
              THEN [m EXCEPT !.alpha = "file", !.use_transparency = TRUE,
                             !.transparency_method = "Z_TRANSPARENCY"]
              ELSE m
        c1 == IF id = "ke"
              THEN [mtl EXCEPT !.emit_colors = Take(Floats(ln.toks), 3)]
              ELSE IF id = "ni" THEN [mtl EXCEPT !.vars = @ \cup {"ior"}]
              ELSE IF id = "d" THEN [mtl EXCEPT !.vars = @ \cup {"alpha"}]
              ELSE IF id = "illum"
              THEN IllumFlags(mtl, NumberOf(ln.toks[1]))
              ELSE mtl
    IN IF err # "" THEN LibRaise(err)
       ELSE /\ materials' = [materials EXCEPT ![mtl.mat] = m1]
            /\ mtl' = c1
            /\ UNCHANGED <<pc, error, arl, bone_names, new_armatures,
                           lib_todo>>

LibSkip ==
    UNCHANGED <<pc, error, materials, mtl, arl, bone_names, new_armatures,
                lib_todo>>

CreateMaterials ==
    /\ pc = "materials"
    /\ material_libs = {}
    /\ materials' = NewMaterials
    /\ pc' = "armatures"
    /\ UNCHANGED <<error, obj_lines, optVars, parseVars, geomVars, mtl, arl,
                   bone_names, new_armatures, lib_todo, lib_lines>>

CreateMaterialsLibs ==
    /\ pc = "materials"
    /\ material_libs # {}
    /\ materials' = NewMaterials
    /\ lib_todo' = sorted(material_libs)
    /\ pc' = "mtl_open"
    /\ UNCHANGED <<error, obj_lines, optVars, parseVars, geomVars, mtl, arl,
                   bone_names, new_armatures, lib_lines>>

(* for libname in sorted(material_libs) (lines 232-248).                   *)
MtlOpen ==
    /\ pc = "mtl_open"
    /\ IF lib_todo = <<>>
       THEN /\ pc' = "armatures"
            /\ UNCHANGED <<mtl, lib_todo>>
       ELSE \E exists \in BOOLEAN :
               IF exists
               THEN /\ pc' = "mtl_read"
                    /\ mtl' = [MtlStart EXCEPT !.vars = mtl.vars]
                    /\ UNCHANGED lib_todo
               ELSE /\ lib_todo' = Tail(lib_todo)
                    /\ UNCHANGED <<pc, mtl>>
    /\ UNCHANGED <<error, obj_lines, optVars, parseVars, geomVars, materials,
                   arl, bone_names, new_armatures, lib_lines>>

(* One line of the material library (lines 249-439).                       *)
MtlLine(ln) ==
    /\ pc = "mtl_read"
    /\ lib_lines' = Append(lib_lines, ln)
    /\ IF IsBlankOrComment(ln) THEN LibSkip
       ELSE IF ln.start = "newmtl" THEN MtlNewmtl(ln)
       ELSE IF Truthy(mtl.mat) THEN MtlProperty(ln)
       ELSE LibSkip
    /\ UNCHANGED <<obj_lines, optVars, parseVars, geomVars>>

(* The end of the library: mtl.close() (line 440); the locals of the loop  *)
(* are not read again.                                                     *)
MtlEof ==
    /\ pc = "mtl_read"
    /\ pc' = "mtl_open"
    /\ lib_todo' = Tail(lib_todo)
    /\ lib_lines' = <<>>
    /\ mtl' = [MtlStart EXCEPT !.vars = mtl.vars]
    /\ UNCHANGED <<error, obj_lines, optVars, parseVars, geomVars, materials,
                   arl, bone_names, new_armatures>>

(***************************************************************************)
(* create_armatures (lines 492-610).  The bones' tails and lengths (lines  *)
(* 583-606) are not modelled.                                              *)
(***************************************************************************)
CreateArmatures ==
    /\ pc = "armatures"
    /\ armature_libs = {}
    /\ pc' = "split"
    /\ UNCHANGED <<error, obj_lines, optVars, parseVars, meshVars>>

CreateArmaturesLibs ==
    /\ pc = "armatures"
    /\ armature_libs # {}
    /\ lib_todo' = sorted(armature_libs)
    /\ pc' = "arl_open"
    /\ UNCHANGED <<error, obj_lines, optVars, parseVars, geomVars, materials,
                   mtl, arl, bone_names, new_armatures, lib_lines>>

ArlOpen ==
    /\ pc = "arl_open"
    /\ IF lib_todo = <<>>
       THEN /\ pc' = "split"
            /\ UNCHANGED <<arl, lib_todo>>
       ELSE \E exists \in BOOLEAN :
               IF exists
               THEN /\ pc' = "arl_read"
                    /\ arl' = ArlStart
                    /\ UNCHANGED lib_todo
               ELSE /\ lib_todo' = Tail(lib_todo)
                    /\ UNCHANGED <<pc, arl>>
    /\ UNCHANGED <<error, obj_lines, optVars, parseVars, geomVars, materials,
                   mtl, bone_names, new_armatures, lib_lines>>

(* One line of the skeleton library (lines 522-549).                       *)
ArlRead(ln) ==
    IF arl.bone_count \in {<<>>, <<0>>}
    THEN IF ArgError(ln.toks, 1) # "" THEN LibRaise(ArgError(ln.toks, 1))
         ELSE /\ arl' = [arl EXCEPT !.bone_count = <<NumberOf(ln.toks[1])>>,
                                    !.read = "name"]
              /\ UNCHANGED <<pc, error, materials, mtl, bone_names,
                             new_armatures, lib_todo>>
    ELSE IF arl.read = "name"
    THEN /\ bone_names' = Append(bone_names, ln.toks)
         /\ arl' = [arl EXCEPT !.read = "parent"]
         /\ UNCHANGED <<pc, error, materials, mtl, new_armatures, lib_todo>>
    ELSE IF arl.read = "parent"
    THEN IF ArgError(ln.toks, 1) # "" THEN LibRaise(ArgError(ln.toks, 1))
         ELSE /\ arl' = [arl EXCEPT
                           !.bone_parents = Append(@, NumberOf(ln.toks[1])),
                           !.read = "head"]
              /\ UNCHANGED <<pc, error, materials, mtl, bone_names,
                             new_armatures, lib_todo>>
    ELSE IF ArgError(ln.toks, 3) # "" THEN LibRaise(ArgError(ln.toks, 3))
    ELSE /\ arl' = [arl EXCEPT
                      !.bone_heads = Append(@, Take(Floats(ln.toks), 3)),
                      !.read = "name"]
         /\ UNCHANGED <<pc, error, materials, mtl, bone_names, new_armatures,
                        lib_todo>>

ArlLine(ln) ==
    /\ pc = "arl_read"
    /\ lib_lines' = Append(lib_lines, ln)
    /\ IF IsBlankOrComment(ln) THEN LibSkip ELSE ArlRead(ln)
    /\ UNCHANGED <<obj_lines, optVars, parseVars, geomVars>>

(* The end of the library: the armature and its bones (lines 551-610).     *)
Armature ==
    [bones |->
       [i \in 1..Len(bone_names) |->
          [name |-> bone_names[i], head |-> arl.bone_heads[i],
           parent |-> IF i <= Len(arl.bone_parents) /\ arl.bone_parents[i] >= 0
                      THEN <<arl.bone_parents[i]>> ELSE <<>>]]]

ArlEof ==
    /\ pc = "arl_read"
    /\ lib_lines' = <<>>
    /\ IF \/ Len(arl.bone_heads) < Len(bone_names)
          \/ \E i \in 1..Len(arl.bone_parents) :
                arl.bone_parents[i] >= Len(bone_names)
       THEN /\ pc' = "raised"
            /\ error' = "IndexError"
            /\ UNCHANGED <<arl, new_armatures, lib_todo>>
       ELSE /\ new_armatures' = Append(new_armatures, Armature)
            /\ lib_todo' = Tail(lib_todo)
            /\ arl' = ArlStart
            /\ pc' = "arl_open"
            /\ UNCHANGED error
    /\ UNCHANGED <<obj_lines, optVars, parseVars, geomVars, materials, mtl,
                   bone_names>>

(***************************************************************************)
(* split_mesh (lines 617-685).  A group is the tuple the function returns, *)
(* with its key; shared says that the group's face list and pool are the   *)
(* caller's own objects (the single-group return).                         *)
(***************************************************************************)
filename == "file"

ListIsEllipsis(l) == FALSE

AnyNotEllipsis(fs) == \E i \in 1..Len(fs) : ~ListIsEllipsis(fs[i])

SplitSingle ==
    <<[key |-> None, verts |-> verts_loc, faces |-> faces,
       mats |-> unique_materials, name |-> filename,
       use_vnor |-> AnyNotEllipsis(faces),
       use_vtex |-> AnyNotEllipsis(faces),
       use_vcol |-> AnyNotEllipsis(faces),
       bw |-> verts_bw, shared |-> TRUE]>>

NewEntry(key) ==
    [key |-> key, verts |-> <<>>, faces |-> <<>>, mats |-> <<>>,
     remap |-> EmptyDict, use_vnor |-> FALSE, use_vtex |-> FALSE,
     use_vcol |-> FALSE, bw |-> <<>>, err |-> ""]

RemapVertNoReuse(e, i) ==
    IF ~InRange(verts_loc, i) THEN [e EXCEPT !.err = "IndexError"]
    ELSE IF verts_bw # <<>> /\ ~InRange(verts_bw, i)
    THEN [e EXCEPT !.err = "IndexError"]
    ELSE [e EXCEPT !.remap = Put(@, i, Len(e.verts)),
                   !.verts = Append(@, PyIndex(verts_loc, i)),
                   !.bw = IF verts_bw # <<>>
                          THEN Append(@, PyIndex(verts_bw, i)) ELSE @]

RemapVertKeepGlobal(e, i) ==
    IF i \in DOMAIN e.remap THEN e
    ELSE IF ~InRange(verts_loc, i) THEN [e EXCEPT !.err = "IndexError"]
    ELSE IF verts_bw # <<>> /\ ~InRange(verts_bw, i)
    THEN [e EXCEPT !.err = "IndexError"]
    ELSE [e EXCEPT !.remap = Put(@, i, i),
                   !.verts = Append(@, PyIndex(verts_loc, i)),
                   !.bw = IF verts_bw # <<>>
                          THEN Append(@, PyIndex(verts_bw, i)) ELSE @]

RemapVert(e, i) ==
    IF i \in DOMAIN e.remap THEN e
    ELSE IF ~InRange(verts_loc, i) THEN [e EXCEPT !.err = "IndexError"]
    ELSE IF verts_bw # <<>> /\ ~InRange(verts_bw, i)
    THEN [e EXCEPT !.err = "IndexError"]
    ELSE [e EXCEPT !.remap = Put(@, i, Len(e.verts)),
                   !.verts = Append(@, PyIndex(verts_loc, i)),
                   !.bw = IF verts_bw # <<>>
                          THEN Append(@, PyIndex(verts_bw, i)) ELSE @]

RECURSIVE RemapFace(_, _, _, _)
RemapFace(e, face, k, newloc) ==
    IF k > Len(face.loc) \/ e.err # ""
    THEN [entry |-> e, loc |-> newloc]
    ELSE LET e1 == RemapVert(e, face.loc[k])
             e2 == IF e1.err = "" /\ Truthy(face.mat)
                   THEN [e1 EXCEPT !.mats = AddKey(@, face.mat)] ELSE e1
         IN RemapFace(e2, face, k + 1,
                      IF e1.err = "" THEN Append(newloc, e1.remap[face.loc[k]])
                      ELSE newloc)

SplitKeyMaterial(face) == face.mat

SplitKey(face) == face.ob

KeyIndex(gs, key) ==
    IF \E j \in 1..Len(gs) : gs[j].key = key
    THEN CHOOSE j \in 1..Len(gs) : gs[j].key = key
    ELSE Len(gs) + 1

SplitFace(gs, face) ==
    LET j == KeyIndex(gs, SplitKey(face))
        gs1 == IF j > Len(gs) THEN Append(gs, NewEntry(SplitKey(face)))
               ELSE gs
        e0 == [gs1[j] EXCEPT
                 !.use_vnor = @ \/ ~ListIsEllipsis(face.nor),
                 !.use_vtex = @ \/ ~ListIsEllipsis(face.tex),
                 !.use_vcol = @ \/ ~ListIsEllipsis(face.col)]
        r == RemapFace(e0, face, 1, <<>>)
        e1 == [r.entry EXCEPT
                 !.faces = Append(@, [face EXCEPT !.loc = r.loc])]
    IN [gs1 EXCEPT ![j] = e1]

RECURSIVE SplitFaces(_, _, _)
SplitFaces(gs, fs, k) ==
    IF k > Len(fs) THEN gs
    ELSE IF \E j \in 1..Len(gs) : gs[j].err # "" THEN gs
    ELSE SplitFaces(SplitFace(gs, fs[k]), fs, k + 1)

key_to_name(key) == IF ~Truthy(key) THEN filename ELSE key

SplitGroups(gs) ==
    [j \in 1..Len(gs) |->
        [key |-> gs[j].key, verts |-> gs[j].verts, faces |-> gs[j].faces,
         mats |-> gs[j].mats, name |-> key_to_name(gs[j].key),
         use_vnor |-> gs[j].use_vnor, use_vtex |-> gs[j].use_vtex,
         use_vcol |-> gs[j].use_vcol, bw |-> gs[j].bw, shared |-> FALSE]]

(* The caller's face records after the call: split mode writes the local   *)
(* indices into the position lists of the records it was handed.           *)
RemappedFaces(gs, fs) ==
    [k \in 1..Len(fs) |->
        LET vert_remap == gs[KeyIndex(gs, SplitKey(fs[k]))].remap
            loc == fs[k].loc
        IN [fs[k] EXCEPT !.loc = [c \in 1..Len(loc) |-> vert_remap[loc[c]]]]]

SPLIT_OB_OR_GROUP == use_split_objects \/ use_split_groups

SplitMesh ==
    /\ pc = "split"
    /\ IF ~SPLIT_OB_OR_GROUP \/ faces = <<>>
       THEN /\ groups' = SplitSingle
            /\ pc' = "mesh"
            /\ UNCHANGED <<error, faces>>
       ELSE LET gs == SplitFaces(<<>>, faces, 1)
            IN IF \E j \in 1..Len(gs) : gs[j].err # ""
               THEN /\ pc' = "raised"
                    /\ error' = "IndexError"
                    /\ UNCHANGED <<faces, groups>>
               ELSE /\ groups' = SplitGroups(gs)
                    /\ faces' = RemappedFaces(gs, faces)
                    /\ pc' = "mesh"
                    /\ UNCHANGED error
    /\ g_idx' = 1
    /\ UNCHANGED <<obj_lines, optVars, poolVars, libVars, ctxVars, nurbsVars,
                   faceVars, context_multi_line, vec, f_idx, edges, tot_loops,
                   smooth_group_users, fgon_edges, new_objects,
                   libStateVars>>

(***************************************************************************)
(* create_mesh (lines 688-993), one call per group of split_mesh.  The     *)
(* reverse loop over the faces is taken one face at a time (f_idx is the   *)
(* 1-based position of the face visited next; 0 when the loop is over).    *)
(***************************************************************************)
CreateMeshBegin ==
    /\ pc = "mesh"
    /\ g_idx <= Len(groups)
    /\ pc' = "validate"
    /\ f_idx' = Len(groups[g_idx].faces)
    /\ edges' = <<>>
    /\ tot_loops' = 0
    /\ fgon_edges' = {}
    /\ smooth_group_users' = [sg \in unique_smooth_groups |-> EmptyDict]
    /\ UNCHANGED <<error, obj_lines, optVars, parseVars, groups, g_idx,
                   new_objects, libStateVars>>

(* bpy_extras.mesh_utils.ngon_tessellate is not part of the source: its    *)
(* result is any list of at most MaxTris triangles over the corners of the *)
(* polygon, each triangle three corner positions 0..n-1.                   *)
MaxTris == 2

Triples(n) ==
    {<<a, b, c>> : a \in 0..(n - 1), b \in 0..(n - 1), c \in 0..(n - 1)}

CornerTriples(n) == {t \in Triples(n) : t[1] < t[2] /\ t[2] < t[3]}

RECURSIVE SeqsUpTo(_, _)
SeqsUpTo(S, k) ==
    IF k = 0 THEN {<<>>}
    ELSE LET shorter == SeqsUpTo(S, k - 1)
         IN shorter \cup {Append(q, x) : q \in shorter, x \in S}

ngon_tessellate(n) == SeqsUpTo(CornerTriples(n), MaxTris)

CountEdges(edge_dict, loc) ==
    LET Keys == {EdgeKey(IF i = 1 THEN loc[Len(loc)] ELSE loc[i - 1], loc[i])
                   : i \in 1..Len(loc)}
        Uses(k) == Cardinality({i \in 1..Len(loc) :
                      EdgeKey(IF i = 1 THEN loc[Len(loc)] ELSE loc[i - 1],
                              loc[i]) = k})
    IN [k \in (DOMAIN edge_dict) \cup Keys |->
          Get(edge_dict, k, 0) + (IF k \in Keys THEN Uses(k) ELSE 0)]

PolylineEdgesClosed(loc) ==
    [i \in 1..Len(loc) |-> <<loc[i], loc[(i % Len(loc)) + 1]>>]

PolylineEdges(loc) == [i \in 1..(Len(loc) - 1) |-> <<loc[i], loc[i + 1]>>]

Pick(s, ngon) == <<s[ngon[1] + 1], s[ngon[2] + 1], s[ngon[3] + 1]>>

NgonFaceFirstCorners(face, ngon) ==
    [loc |-> Pick(face.loc, ngon),
     nor |-> IF face.nor # <<>> THEN Pick(face.nor, <<0, 1, 2>>) ELSE <<>>,
     tex |-> IF face.tex # <<>> THEN Pick(face.tex, <<0, 1, 2>>) ELSE <<>>,
     col |-> IF face.col # <<>> THEN Pick(face.col, <<0, 1, 2>>) ELSE <<>>,
     mat |-> face.mat, sg |-> face.sg, ob |-> face.ob, inv |-> FALSE]

NgonFace(face, ngon) ==
    [loc |-> Pick(face.loc, ngon),
     nor |-> IF face.nor # <<>> THEN Pick(face.nor, ngon) ELSE <<>>,
     tex |-> IF face.tex # <<>> THEN Pick(face.tex, ngon) ELSE <<>>,
     col |-> IF face.col # <<>> THEN Pick(face.col, ngon) ELSE <<>>,
     mat |-> face.mat, sg |-> face.sg, ob |-> face.ob, inv |-> FALSE]

NgonFaces(face, ngon_face_indices) ==
    [t \in 1..Len(ngon_face_indices) |-> NgonFace(face, ngon_face_indices[t])]

(* Edges used by more than one of the produced triangles (lines 791-804).  *)
RECURSIVE FgonScan(_, _, _, _, _, _)
FgonScan(loc, ngons, t, c, prev, st) ==
    IF t > Len(ngons) THEN st.fgon
    ELSE IF c > 3
    THEN FgonScan(loc, ngons, t + 1, 0, 0, st)
    ELSE IF c = 0
    THEN FgonScan(loc, ngons, t, 1, loc[ngons[t][3] + 1], st)
    ELSE LET vidx == loc[ngons[t][c] + 1]
             edge_key == EdgeKey(prev, vidx)
         IN IF vidx = prev THEN FgonScan(loc, ngons, t, c + 1, prev, st)
            ELSE FgonScan(loc, ngons, t, c + 1, vidx,
                   IF edge_key \in st.users
                   THEN [st EXCEPT !.fgon = @ \cup {edge_key}]
                   ELSE [st EXCEPT !.users = @ \cup {edge_key}])

FgonEdges(loc, ngons) ==
    IF Len(ngons) > 1
    THEN FgonScan(loc, ngons, 1, 0, 0, [users |-> {}, fgon |-> {}])
    ELSE {}

SetGroupFaces(fs) ==
    /\ groups' = [groups EXCEPT ![g_idx].faces = fs]
    /\ faces' = IF groups[g_idx].shared THEN fs ELSE faces

ValidateRaise(e) ==
    /\ pc' = "raised"
    /\ error' = e
    /\ UNCHANGED <<faces, groups, f_idx, edges, tot_loops, smooth_group_users,
                   fgon_edges>>

ValidateFace ==
    /\ pc = "validate"
    /\ f_idx >= 1
    /\ LET fs == groups[g_idx].faces
           face == fs[f_idx]
           loc == face.loc
           n == Len(loc)
           smooth == unique_smooth_groups # {} /\ Truthy(face.sg)
           tess == face.inv /\ n > 3
       IN IF n = 1
          THEN /\ SetGroupFaces(RemoveAt(fs, f_idx))
               /\ f_idx' = f_idx - 1
               /\ UNCHANGED <<pc, error, edges, tot_loops,
                              smooth_group_users, fgon_edges>>
          ELSE IF Len(face.nor) = 1 \/ n = 2
          THEN /\ edges' = IF use_edges THEN edges \o PolylineEdges(loc)
                           ELSE edges
               /\ SetGroupFaces(RemoveAt(fs, f_idx))
               /\ f_idx' = f_idx - 1
               /\ UNCHANGED <<pc, error, tot_loops, smooth_group_users,
                              fgon_edges>>
          ELSE IF smooth /\ n = 0 THEN ValidateRaise("IndexError")
          ELSE IF tess /\ \E i \in 1..n : ~InRange(groups[g_idx].verts, loc[i])
          THEN ValidateRaise("IndexError")
          ELSE \E ngon_face_indices \in
                     (IF tess THEN ngon_tessellate(n) ELSE {<<>>}) :
               /\ smooth_group_users' =
                     IF smooth
                     THEN [smooth_group_users EXCEPT ![face.sg] =
                              CountEdges(@, loc)]
                     ELSE smooth_group_users
               /\ SetGroupFaces(
                     IF face.inv
                     THEN RemoveAt(fs \o NgonFaces(face, ngon_face_indices),
                                   f_idx)
                     ELSE fs)
               /\ tot_loops' =
                     IF face.inv THEN tot_loops + 3 * Len(ngon_face_indices)
                     ELSE tot_loops + n
               /\ fgon_edges' = fgon_edges \cup FgonEdges(loc, ngon_face_indices)
               /\ f_idx' = f_idx - 1
               /\ UNCHANGED <<pc, error, edges>>
    /\ UNCHANGED <<obj_lines, optVars, poolVars, libVars, ctxVars, nurbsVars,
                   faceVars, context_multi_line, vec, g_idx, new_objects,
                   libStateVars>>

(* Build sharp edges (lines 810-815).                                      *)
SharpEdgesAnyCount(users) ==
    {k \in UNION {DOMAIN users[sg] : sg \in DOMAIN users} :
        \E sg \in DOMAIN users : k \in DOMAIN users[sg] /\ users[sg][k] >= 1}

SharpEdges(users) ==
    {k \in UNION {DOMAIN users[sg] : sg \in DOMAIN users} :
        \E sg \in DOMAIN users : k \in DOMAIN users[sg] /\ users[sg][k] = 1}

PassedWhenUnused(use, pool) == IF use THEN <<>> ELSE pool

Passed(use, pool) == IF use THEN pool ELSE <<>>

OptIndexOutOfRange(face, pool, field) ==
    pool # <<>> /\
    \E c \in 1..Len(face[field]) :
        ~InRange(pool, IF face[field][c] = <<>> THEN 0 ELSE face[field][c][1])

(* The per-face loop of lines 868-906: what the visit of one face raises.  *)
FaceError(face, nor, tex, col) ==
    IF Len(face.loc) < 3 THEN "bad face"
    ELSE IF \/ OptIndexOutOfRange(face, nor, "nor")
            \/ OptIndexOutOfRange(face, col, "col")
            \/ OptIndexOutOfRange(face, tex, "tex")
    THEN "IndexError"
    ELSE ""

BuildMesh ==
    /\ pc = "validate"
    /\ f_idx = 0
    /\ LET g == groups[g_idx]
           nor == Passed(g.use_vnor, verts_nor)
           tex == Passed(g.use_vtex, verts_tex)
           col == Passed(g.use_vcol, verts_col)
           me == [name |-> g.name, vertices |-> g.verts, faces |-> g.faces,
                  materials |-> g.mats, tot_loops |-> tot_loops,
                  verts_nor |-> nor, verts_tex |-> tex, verts_col |-> col,
                  use_normals |-> nor # <<>> /\ tot_loops > 0,
                  use_uv |-> tex # <<>> /\ g.faces # <<>>,
                  use_col |-> col # <<>> /\ g.faces # <<>>,
                  edges |-> IF use_edges THEN edges ELSE <<>>,
                  sharp_edges |-> SharpEdges(smooth_group_users),
                  fgon_edges |-> fgon_edges]
           bad == {i \in 1..Len(g.faces) :
                     FaceError(g.faces[i], nor, tex, col) # ""}
       IN IF bad # {}
          THEN /\ pc' = "raised"
               /\ error' = FaceError(
                      g.faces[CHOOSE i \in bad : \A j \in bad : i <= j],
                      nor, tex, col)
               /\ UNCHANGED <<new_objects, g_idx>>
          ELSE /\ new_objects' = Append(new_objects, me)
               /\ g_idx' = g_idx + 1
               /\ pc' = "mesh"
               /\ UNCHANGED error
    /\ UNCHANGED <<obj_lines, optVars, parseVars, groups, f_idx, edges,
                   tot_loops, smooth_group_users, fgon_edges, libStateVars>>

(***************************************************************************)
(* create_nurbs (lines 995-1065): what one call does with a block of the   *)
(* nurbs list: it returns early (kind "none"), raises (kind "error"), or   *)
(* appends a curve object (kind "curve").                                  *)
(***************************************************************************)
DoEndpoints(has_range, curv_range, parm_u, deg) ==
    /\ has_range
    /\ Len(parm_u) > deg[1] + 1
    /\ \A i \in 0..deg[1] :
          /\ parm_u[i + 1] = curv_range[1]
          /\ parm_u[Len(parm_u) - i] = curv_range[2]

create_nurbs(cn, vert_loc) ==
    LET deg == Get(cn, "deg", <<3>>)
        curv_range == Get(cn, "curv_range", <<>>)
        curv_idx == Get(cn, "curv_idx", <<>>)
        parm_u == Get(cn, "parm_u", <<>>)
        parm_v == Get(cn, "parm_v", <<>>)
        name == Get(cn, "name", "ObjNurb")
        cstype == Get(cn, "cstype", None)
    IN IF cstype = None THEN [kind |-> "none"]
       ELSE IF cstype # "bspline" THEN [kind |-> "none"]
       ELSE IF curv_idx = <<>> THEN [kind |-> "none"]
       ELSE IF Len(deg) > 1 \/ parm_v # <<>> THEN [kind |-> "none"]
       ELSE IF \E i \in 1..Len(curv_idx) : ~InRange(vert_loc, curv_idx[i])
       THEN [kind |-> "error", error |-> "IndexError"]
       ELSE IF deg = <<>> THEN [kind |-> "error", error |-> "IndexError"]
       ELSE [kind |-> "curve",
             ob |-> [name |-> name,
                     points |-> [i \in 1..Len(curv_idx) |->
                                   PyIndex(vert_loc, curv_idx[i])],
                     order_u |-> deg[1] + 1,
                     use_endpoint_u |->
                        DoEndpoints("curv_range" \in DOMAIN cn, curv_range,
                                    parm_u, deg)]]

(* for context_nurbs in nurbs: create_nurbs(...) (lines 1481-1483).        *)
RECURSIVE CreateAllNurbs(_, _, _)
CreateAllNurbs(blocks, vert_loc, objects) ==
    IF blocks = <<>> THEN [error |-> "", objects |-> objects]
    ELSE LET r == create_nurbs(Head(blocks), vert_loc)
         IN IF r.kind = "error" THEN [error |-> r.error, objects |-> objects]
            ELSE CreateAllNurbs(Tail(blocks), vert_loc,
                   IF r.kind = "curve" THEN Append(objects, r.ob)
                   ELSE objects)

(* The end of load, after the last group (lines 1481-1534).                *)
Finish ==
    /\ pc = "mesh"
    /\ g_idx > Len(groups)
    /\ LET r == CreateAllNurbs(nurbs, verts_loc, new_objects)
       IN /\ pc' = IF r.error = "" THEN "done" ELSE "raised"
          /\ error' = IF r.error = "" THEN error ELSE r.error
          /\ new_objects' = r.objects
    /\ UNCHANGED <<obj_lines, optVars, parseVars, groups, g_idx, f_idx, edges,
                   tot_loops, smooth_group_users, fgon_edges, libStateVars>>

Pipeline ==
    \/ EndOfFile
    \/ CreateMaterials
    \/ CreateArmatures
    \/ SplitMesh
    \/ CreateMeshBegin
    \/ ValidateFace
    \/ BuildMesh
    \/ Finish

(***************************************************************************)
(* Input lines.                                                            *)
(***************************************************************************)
Line(start, toks, cont) == [start |-> start, toks |-> toks, cont |-> cont]

Vert(p) == <<<<p>>>>

VertTN(p, t, n) == <<<<p>>, <<t>>, <<n>>>>

VertN(p, n) == <<<<p>>, <<>>, <<n>>>>

VertTNC(p, t, n, c) == <<<<p>>, <<t>>, <<n>>, <<c>>>>

DefaultOptions == Options(TRUE, TRUE, TRUE, TRUE, FALSE)

(***************************************************************************)
(* SpecIdx: index tokens of every kind, positive and negative, in f, l and *)
(* curv directives and their continuation lines, between pool appends.     *)
(***************************************************************************)
MaxLinesIdx == 4

IdxVerts == {VertTNC(-1, -1, -1, -1), VertTNC(1, 2, 2, 2), VertN(-2, -1)}

LinesIdx ==
    {Line(kw, <<Num(0), Num(0), Num(0)>>, FALSE) : kw \in {"v", "vn", "vt", "vc"}}
    \cup {Line("f", <<t>>, c) : t \in IdxVerts, c \in BOOLEAN}
    \cup {Line("", <<t>>, FALSE) : t \in IdxVerts}
    \cup {Line("l", <<Vert(1), Vert(-1)>>, c) : c \in BOOLEAN}
    \cup {Line("curv", <<Num(0), Num(1), Num(-1), Num(1)>>, c) : c \in BOOLEAN}

ParseIdx ==
    \E ln \in LinesIdx : Len(obj_lines) < MaxLinesIdx /\ ReadLine(ln)

InitIdx == InitLoad /\ DefaultOptions

NextIdx == ParseIdx \/ Pipeline

SpecIdx == InitIdx /\ [][NextIdx]_vars

(***************************************************************************)
(* SpecTopo: position-only polygons over three vertices, with and without  *)
(* a repeated position index or a repeated edge.                           *)
(***************************************************************************)
MaxLinesTopo == 5

FLine(ps) == Line("f", [i \in 1..Len(ps) |-> Vert(ps[i])], FALSE)

LinesTopo ==
    {Line("v", <<Num(0), Num(0), Num(0)>>, FALSE),
     FLine(<<1, 2, 3>>), FLine(<<1, 2, 1>>), FLine(<<1, 1, 2, 3>>),
     FLine(<<1, 2, 1, 2>>), FLine(<<1, 2, 3, 2>>)}

ParseTopo == \E ln \in LinesTopo : Len(obj_lines) < MaxLinesTopo /\ ReadLine(ln)

InitTopo == InitLoad /\ DefaultOptions

NextTopo == ParseTopo \/ Pipeline

SpecTopo == InitTopo /\ [][NextTopo]_vars

(***************************************************************************)
(* SpecSplit: three distinct vertices, then faces under object names that  *)
(* change and come back, with object splitting on and off.                 *)
(***************************************************************************)
MaxLinesSplit == 6

VertLines ==
    <<Line("v", <<Num(0), Num(0), Num(0)>>, FALSE),
      Line("v", <<Num(1), Num(0), Num(0)>>, FALSE),
      Line("v", <<Num(0), Num(1), Num(0)>>, FALSE)>>

LinesSplit ==
    {Line("o", <<"A">>, FALSE), Line("o", <<"B">>, FALSE),
     FLine(<<3, 2, 1>>), FLine(<<3, 2>>)}

ParseSplit ==
    \E ln \in (IF Len(obj_lines) < Len(VertLines)
               THEN {VertLines[Len(obj_lines) + 1]} ELSE LinesSplit) :
        Len(obj_lines) < Len(VertLines) + MaxLinesSplit /\ ReadLine(ln)

InitSplit ==
    InitLoad /\ \E split \in BOOLEAN : Options(TRUE, TRUE, split, split, FALSE)

NextSplit == ParseSplit \/ Pipeline

SpecSplit == InitSplit /\ [][NextSplit]_vars

(***************************************************************************)
(* SpecSmooth: three vertices, then faces under smoothing groups 1, 2 and  *)
(* off; one of the faces uses an edge twice, one is a two-corner face.     *)
(***************************************************************************)
MaxLinesSmooth == 5

LinesSmooth ==
    {Line("s", <<"1">>, FALSE), Line("s", <<"2">>, FALSE),
     Line("s", <<"off">>, FALSE),
     FLine(<<1, 2, 3>>), FLine(<<1, 2, 1>>), FLine(<<1, 2>>)}

ParseSmooth ==
    \E ln \in (IF Len(obj_lines) < Len(VertLines)
               THEN {VertLines[Len(obj_lines) + 1]} ELSE LinesSmooth) :
        Len(obj_lines) < Len(VertLines) + MaxLinesSmooth /\ ReadLine(ln)

InitSmooth == InitLoad /\ DefaultOptions

NextSmooth == ParseSmooth \/ Pipeline

SpecSmooth == InitSmooth /\ [][NextSmooth]_vars

(***************************************************************************)
(* SpecTri: three vertices, then normals, texture coordinates and          *)
(* triangles that name a position, a texture coordinate and a normal at    *)
(* every corner; splitting off.                                            *)
(***************************************************************************)
MaxLinesTri == 5

LinesTri ==
    {Line("vn", <<Num(0), Num(0), Num(1)>>, FALSE),
     Line("vn", <<Num(1), Num(0), Num(0)>>, FALSE),
     Line("vt", <<Num(0), Num(1)>>, FALSE),
     Line("f", <<VertTN(1, 1, 1), VertTN(2, 1, 2), VertTN(3, 1, 1)>>, FALSE),
     Line("f", <<VertTN(3, -1, -1), VertTN(2, -1, -1), VertTN(1, -1, -1)>>,
          FALSE),
     Line("f", <<VertTN(1, 1, 1), VertTN(2, 1, 1), VertTN(-3, 1, 1)>>, FALSE)}

ParseTri ==
    \E ln \in (IF Len(obj_lines) < Len(VertLines)
               THEN {VertLines[Len(obj_lines) + 1]} ELSE LinesTri) :
        Len(obj_lines) < Len(VertLines) + MaxLinesTri /\ ReadLine(ln)

InitTri == InitLoad /\ Options(TRUE, TRUE, FALSE, FALSE, FALSE)

NextTri == ParseTri \/ Pipeline

SpecTri == InitTri /\ [][NextTri]_vars

(***************************************************************************)
(* SpecScen: the end-to-end scenarios.  Vertices at three different places *)
(* in any order and number, a triangle and two quads, splitting on or off. *)
(***************************************************************************)
MaxLinesScen == 5

LinesScen ==
    Range(VertLines)
    \cup {FLine(<<1, 2, 3>>), FLine(<<1, 2, 3, 4>>), FLine(<<1, 2, 1, 4>>)}

ParseScen == \E ln \in LinesScen : Len(obj_lines) < MaxLinesScen /\ ReadLine(ln)

InitScen ==
    InitLoad /\ \E split \in BOOLEAN : Options(TRUE, TRUE, split, split, FALSE)

NextScen == ParseScen \/ Pipeline

SpecScen == InitScen /\ [][NextScen]_vars

(***************************************************************************)
(* SpecLib: a triangle under material M, then mtllib and arllib lines; the *)
(* material library and the skeleton library are read line by line from    *)
(* small alphabets that hold well-formed and malformed lines.              *)
(***************************************************************************)
MaxLinesLib == 2

MaxLinesMtl == 4

MaxLinesArl == 7

Junk == <<<<1>>, <<2>>>>

LibHeader ==
    VertLines \o <<Line("usemtl", <<"M">>, FALSE), FLine(<<1, 2, 3>>)>>

LinesLib ==
    {Line("mtllib", <<"lib.mtl">>, FALSE), Line("arllib", <<"lib.arl">>, FALSE)}

LinesMtl ==
    <<Line("newmtl", <<"M">>, FALSE), Line("newmtl", <<"N">>, FALSE),
      Line("illum", <<Num(4)>>, FALSE), Line("illum", <<Num(2)>>, FALSE),
      Line("illum", <<Junk>>, FALSE), Line("kd", <<Num(1)>>, FALSE),
      Line("map_kd", <<"-o", "1", "2", "tex.png">>, FALSE),
      Line("map_kd", <<"-s", "2", "-o", "1", "tex.png">>, FALSE),
      Line("map_ks", <<"tex.png">>, FALSE)>>

LinesArl ==
    {Line("", <<Num(1)>>, FALSE), Line("", <<Num(-1)>>, FALSE),
     Line("", <<Junk>>, FALSE), Line("", <<Num(0), Num(0), Num(0)>>, FALSE)}

ParseLib ==
    \E ln \in (IF Len(obj_lines) < Len(LibHeader)
               THEN {LibHeader[Len(obj_lines) + 1]} ELSE LinesLib) :
        Len(obj_lines) < Len(LibHeader) + MaxLinesLib /\ ReadLine(ln)

ReadMtl ==
    \E i \in 1..Len(LinesMtl) :
        Len(lib_lines) < MaxLinesMtl /\ MtlLine(LinesMtl[i])

ReadArl == \E ln \in LinesArl : Len(lib_lines) < MaxLinesArl /\ ArlLine(ln)

Libraries ==
    \/ CreateMaterialsLibs
    \/ MtlOpen
    \/ ReadMtl
    \/ MtlEof
    \/ CreateArmaturesLibs
    \/ ArlOpen
    \/ ReadArl
    \/ ArlEof

InitLib == InitLoad /\ DefaultOptions

NextLib == ParseLib \/ Pipeline \/ Libraries

SpecLib == InitLib /\ [][NextLib]_vars

(***************************************************************************)
(* C1.  Every index token of an f, l or curv directive is stored resolved  *)
(* against the pool length at the moment its line is parsed: a positive    *)
(* token i as i-1, a negative token -k as (pool length) - k, each kind     *)
(* against its own pool; and a line that appends to a pool (v, vn, vt, vc) *)
(* changes no index stored before it.                                      *)
(***************************************************************************)
Expected(i, pool_len) == IF i > 0 THEN i - 1 ELSE pool_len + i

ExpectedLoc(toks) ==
    [i \in 1..Len(toks) |-> Expected(toks[i][1][1], Len(verts_loc))]

ExpectedOpt(toks, k, pool_len) ==
    [i \in 1..Len(toks) |->
        IF Len(toks[i]) > k /\ toks[i][k + 1] \notin {<<>>, <<0>>}
        THEN <<Expected(toks[i][k + 1][1], pool_len)>> ELSE <<>>]

DirectiveOf(ln) == IF ln.start # "" THEN ln.start ELSE context_multi_line

IsPrefix(s, t) == Len(s) <= Len(t) /\ SubSeq(t, 1, Len(s)) = s

C1_Step ==
    (pc = "parse" /\ pc' = "parse" /\ Len(obj_lines') = Len(obj_lines) + 1) =>
    LET ln == obj_lines'[Len(obj_lines')]
        d == DirectiveOf(ln)
        j == Len(faces')
        old == IF ln.start = "" THEN faces[j]
               ELSE create_face(None, None, None)
    IN /\ d = "f" =>
            /\ faces'[j].loc = old.loc \o ExpectedLoc(ln.toks)
            /\ faces'[j].tex \in
                  {<<>>, old.tex \o ExpectedOpt(ln.toks, 1, Len(verts_tex))}
            /\ faces'[j].nor \in
                  {<<>>, old.nor \o ExpectedOpt(ln.toks, 2, Len(verts_nor))}
            /\ faces'[j].col \in
                  {<<>>, old.col \o ExpectedOpt(ln.toks, 3, Len(verts_col))}
       /\ d = "l" => faces'[j].loc = old.loc \o ExpectedLoc(ln.toks)
       /\ d = "curv" =>
            context_nurbs'["curv_idx"] =
               Get(context_nurbs, "curv_idx", <<>>) \o
               [i \in 1..(Len(ln.toks) - (IF ln.start = "" THEN 0 ELSE 2)) |->
                  Expected(ln.toks[i + (IF ln.start = "" THEN 0 ELSE 2)][1][1],
                           Len(verts_loc))]
       /\ d \in {"v", "vn", "vt", "vc"} =>
            /\ faces' = faces
            /\ context_nurbs' = context_nurbs
       /\ \A i \in 1..Len(faces) : IsPrefix(faces[i].loc, faces'[i].loc)

C1_IndexResolution == [][C1_Step]_vars

(* A negative token resolved against one vertex, a vertex appended, and    *)
(* the same token resolved against two: the first face keeps its index.    *)
C1_Witness ==
    /\ pc = "parse"
    /\ Len(obj_lines) = 4
    /\ obj_lines[1].start = "v"
    /\ obj_lines[2] = Line("f", <<VertTNC(-1, -1, -1, -1)>>, FALSE)
    /\ obj_lines[3].start = "v"
    /\ obj_lines[4] = Line("f", <<VertTNC(-1, -1, -1, -1)>>, FALSE)
    /\ Len(verts_loc) = 2
    /\ faces[1].loc = <<0>>
    /\ faces[2].loc = <<1>>

(***************************************************************************)
(* C2 as amended.  A polygon of three or more corners whose cyclic corner  *)
(* list uses the same undirected edge twice is never kept as a face of the *)
(* mesh: create_mesh removes it, adds nothing for it when it has three     *)
(* corners, and otherwise adds the triangles the tessellator returns       *)
(* (possibly none), each over position indices of the polygon.             *)
(***************************************************************************)
CyclicEdge(loc, i) == EdgeKey(IF i = 1 THEN loc[Len(loc)] ELSE loc[i - 1], loc[i])

HasRepeatedEdge(loc) ==
    \E i, j \in 1..Len(loc) : i < j /\ CyclicEdge(loc, i) = CyclicEdge(loc, j)

HasRepeatedIndex(loc) == \E i, j \in 1..Len(loc) : i < j /\ loc[i] = loc[j]

VisitsFace == pc = "validate" /\ f_idx >= 1 /\ pc' = "validate"

ReplacedByTriangles(fs, fs2, face) ==
    /\ Len(fs2) >= Len(fs) - 1
    /\ SubSeq(fs2, 1, Len(fs) - 1) = RemoveAt(fs, f_idx)
    /\ Len(face.loc) <= 3 => Len(fs2) = Len(fs) - 1
    /\ \A k \in Len(fs)..Len(fs2) :
          /\ Len(fs2[k].loc) = 3
          /\ Range(fs2[k].loc) \subseteq Range(face.loc)

C2_Step ==
    VisitsFace =>
    LET fs == groups[g_idx].faces
        face == fs[f_idx]
    IN (Len(face.loc) >= 3 /\ HasRepeatedEdge(face.loc)) =>
          ReplacedByTriangles(fs, groups'[g_idx].faces, face)

C2_OriginalStep ==
    VisitsFace =>
    LET fs == groups[g_idx].faces
        face == fs[f_idx]
    IN (Len(face.loc) >= 3 /\ Len(face.nor) # 1
          /\ HasRepeatedIndex(face.loc)) =>
          ReplacedByTriangles(fs, groups'[g_idx].faces, face)

SplitStep == pc = "split" /\ pc' = "mesh"

SplitMode == SPLIT_OB_OR_GROUP /\ faces # <<>>

FacesOf(fs, key) == LET HasKey(f) == f.ob = key IN SelectSeq(fs, HasKey)

SameFace(g, local, global) ==
    /\ [local EXCEPT !.loc = <<>>] = [global EXCEPT !.loc = <<>>]
    /\ Len(local.loc) = Len(global.loc)
    /\ \A c \in 1..Len(local.loc) :
          /\ local.loc[c] \in 0..(Len(g.verts) - 1)
          /\ g.verts[local.loc[c] + 1] = PyIndex(verts_loc, global.loc[c])

C3_Step ==
    (SplitStep /\ SplitMode) =>
    LET gs == groups'
    IN /\ Len(gs) = Cardinality({faces[k].ob : k \in 1..Len(faces)})
       /\ \A j \in 1..Len(gs) :
            /\ gs[j].faces # <<>>
            /\ LET inp == FacesOf(faces, gs[j].faces[1].ob)
               IN /\ Len(gs[j].faces) = Len(inp)
                  /\ \A k \in 1..Len(inp) :
                        SameFace(gs[j], gs[j].faces[k], inp[k])
       /\ \A i, j \in 1..Len(gs) :
            i # j => gs[i].faces[1].ob # gs[j].faces[1].ob

C3_SplitIsPartition == [][C3_Step]_vars

(* Two faces of one object separated by a face of another share a group.   *)
C3_Witness ==
    /\ pc = "mesh" /\ g_idx = 1 /\ SPLIT_OB_OR_GROUP
    /\ Len(faces) = 3
    /\ faces[1].ob = faces[3].ob /\ faces[1].ob # faces[2].ob
    /\ Len(groups) = 2
    /\ Len(groups[1].faces) = 2

(***************************************************************************)
(* C4 as amended.  In split mode (splitting requested and at least one     *)
(* face), for every group: the local position indices of its faces are     *)
(* exactly 0..n-1 for a local pool of n positions, they are assigned in    *)
(* order of first reference, a corner that references the same global      *)
(* index gets the same local index, and the local position at a corner is  *)
(* the global position the corner referenced before the remap.             *)
(***************************************************************************)
RECURSIVE Flat(_)
Flat(fs) == IF fs = <<>> THEN <<>> ELSE Head(fs).loc \o Flat(Tail(fs))

GroupLocalOK(g, inp) ==
    LET L == Flat(g.faces)
        G == Flat(inp)
    IN /\ Len(L) = Len(G)
       /\ Range(L) = 0..(Len(g.verts) - 1)
       /\ \A p \in 1..Len(L) : L[p] <= Cardinality({L[q] : q \in 1..(p - 1)})
       /\ \A p, q \in 1..Len(L) : G[p] = G[q] => L[p] = L[q]
       /\ \A p \in 1..Len(L) : g.verts[L[p] + 1] = PyIndex(verts_loc, G[p])

C4_Step ==
    (SplitStep /\ SplitMode) =>
    \A j \in 1..Len(groups') :
        GroupLocalOK(groups'[j], FacesOf(faces, groups'[j].faces[1].ob))

C4_LocalIndicesInSplitMode == [][C4_Step]_vars

(* C4 as written: the same for every group split_mesh produces, the single *)
(* group of the no-split path included.                                    *)
C4_OriginalStep ==
    SplitStep =>
    \A j \in 1..Len(groups') :
        GroupLocalOK(groups'[j],
                     IF SplitMode
                     THEN FacesOf(faces, groups'[j].faces[1].ob)
                     ELSE faces)

C4_Original == [][C4_OriginalStep]_vars

(* A group whose first face references positions 3 and 2: they become the  *)
(* local positions 0 and 1, and a second face reuses them.                 *)
C4_Witness ==
    /\ pc = "mesh" /\ g_idx = 1 /\ SPLIT_OB_OR_GROUP
    /\ Len(groups) >= 1
    /\ groups[1].verts = <<<<0, 1, 0>>, <<1, 0, 0>>>>
    /\ Len(groups[1].faces) = 2
    /\ groups[1].faces[1].loc = <<0, 1>>
    /\ groups[1].faces[2].loc = <<0, 1>>

(***************************************************************************)
(* C5 as amended.  After the validator pass the sharp-edge set of a mesh   *)
(* is exactly the set of edges that some smoothing group uses exactly      *)
(* once, the uses of a group being the boundary edges of the polygon faces *)
(* (three or more corners) that carry it: an edge a group uses twice or    *)
(* more is absent unless another group uses it exactly once.               *)
(***************************************************************************)
IsPolygon(face) == Len(face.loc) >= 3 /\ Len(face.nor) # 1

Corners(fs) ==
    UNION {{<<k, i>> : i \in 1..Len(fs[k].loc)} : k \in 1..Len(fs)}

EdgeUses(fs, sg, e) ==
    Cardinality({c \in Corners(fs) :
                    /\ IsPolygon(fs[c[1]])
                    /\ fs[c[1]].sg = sg
                    /\ CyclicEdge(fs[c[1]].loc, c[2]) = e})

FaceEdges(fs) ==
    UNION {{CyclicEdge(fs[k].loc, i) : i \in 1..Len(fs[k].loc)} :
             k \in 1..Len(fs)}

SmoothGroupsOf(fs) == {fs[k].sg : k \in 1..Len(fs)} \ {None}

OneMeshBuilt == pc \in {"mesh", "done"} /\ Len(new_objects) = 1

C5_SharpEdges ==
    OneMeshBuilt =>
       new_objects[1].sharp_edges =
          {e \in FaceEdges(faces) :
              \E sg \in SmoothGroupsOf(faces) : EdgeUses(faces, sg, e) = 1}

(* C5 as written: every edge a group uses once is sharp and no edge a      *)
(* group uses twice or more is.                                            *)
C5_Original ==
    OneMeshBuilt =>
       \A e \in FaceEdges(faces) : \A sg \in SmoothGroupsOf(faces) :
          /\ EdgeUses(faces, sg, e) = 1 => e \in new_objects[1].sharp_edges
          /\ EdgeUses(faces, sg, e) >= 2 => e \notin new_objects[1].sharp_edges

(* One group: edge (1,2) used once is sharp, edge (0,1) used three times   *)
(* is not.                                                                 *)
C5_Witness ==
    /\ pc = "done" /\ Len(new_objects) = 1
    /\ SmoothGroupsOf(faces) = {"1"}
    /\ EdgeUses(faces, "1", <<0, 1>>) = 3
    /\ EdgeUses(faces, "1", <<1, 2>>) = 1
    /\ <<1, 2>> \in new_objects[1].sharp_edges
    /\ <<0, 1>> \notin new_objects[1].sharp_edges

(***************************************************************************)
(* C6 as amended.  For a stream of v and vn records of three components,   *)
(* vt records of two, and at least one triangle, every triangle naming a   *)
(* texture coordinate and a normal at each corner and three different      *)
(* positions, with splitting off and no smoothing group, an import that    *)
(* completes builds one mesh whose position, normal and texture coordinate *)
(* arrays are the input records in order, with one face per input triangle *)
(* carrying the indices resolved when its line was read.                   *)
(***************************************************************************)
Records(kw) ==
    LET IsKw(l) == l.start = kw
        sel == SelectSeq(obj_lines, IsKw)
    IN [i \in 1..Len(sel) |-> Floats(sel[i].toks)]

CountBefore(p, kw) == Cardinality({q \in 1..(p - 1) : obj_lines[q].start = kw})

FaceLineAt(p) == obj_lines[p].start = "f"

FaceLines ==
    LET IsFace(p) == FaceLineAt(p)
    IN SelectSeq([p \in 1..Len(obj_lines) |-> p], IsFace)

ExpectedTri(p) ==
    LET toks == obj_lines[p].toks
    IN [loc |-> [i \in 1..Len(toks) |->
                    Expected(toks[i][1][1], CountBefore(p, "v"))],
        tex |-> [i \in 1..Len(toks) |->
                    <<Expected(toks[i][2][1], CountBefore(p, "vt"))>>],
        nor |-> [i \in 1..Len(toks) |->
                    <<Expected(toks[i][3][1], CountBefore(p, "vn"))>>]]

RoundTrip ==
    /\ Len(new_objects) = 1
    /\ new_objects[1].vertices = Records("v")
    /\ new_objects[1].verts_nor = Records("vn")
    /\ new_objects[1].verts_tex = Records("vt")
    /\ Len(new_objects[1].faces) = Len(FaceLines)
    /\ \A k \in 1..Len(FaceLines) :
          LET face == new_objects[1].faces[k]
              exp == ExpectedTri(FaceLines[k])
          IN face.loc = exp.loc /\ face.tex = exp.tex /\ face.nor = exp.nor

C6_RoundTrip ==
    (/\ pc = "done"
     /\ FaceLines # <<>>
     /\ \A k \in 1..Len(FaceLines) :
           ~HasRepeatedIndex(ExpectedTri(FaceLines[k]).loc)) => RoundTrip

(* C6 as written: the same for every such stream with a triangle, whatever *)
(* the position indices of its triangles.                                  *)
C6_Original == (pc = "done" /\ FaceLines # <<>>) => RoundTrip

(* Two normals, one texture coordinate and two triangles came back.        *)
C6_Witness ==
    /\ pc = "done" /\ Len(new_objects) = 1
    /\ Len(new_objects[1].verts_nor) = 2
    /\ Len(new_objects[1].verts_tex) = 1
    /\ Len(new_objects[1].faces) = 2
    /\ new_objects[1].faces[1].nor = <<<<0>>, <<1>>, <<0>>>>
    /\ new_objects[1].faces[2].loc = <<2, 1, 0>>

(***************************************************************************)
(* C7 as amended.  Scenario B: four vertices of which the first and the    *)
(* third are at the same place, then f 1 2 3 4.  The four position indices *)
(* differ, so the face is not flagged and the mesh has it as one quad      *)
(* [0,1,2,3]; detection compares indices: f 1 2 1 4 in its place is        *)
(* flagged when the face directive ends and is not kept as a quad.         *)
(***************************************************************************)
ScenarioBVerts == <<VertLines[1], VertLines[2], VertLines[1], VertLines[3]>>

ScenarioB == Append(ScenarioBVerts, FLine(<<1, 2, 3, 4>>))

ScenarioBIndexReuse == Append(ScenarioBVerts, FLine(<<1, 2, 1, 4>>))

Quad ==
    [create_face(None, None, None) EXCEPT !.loc = <<0, 1, 2, 3>>]

C7_CoincidingPositionsNotDetected ==
    /\ obj_lines = ScenarioB =>
          /\ faces[1].inv = FALSE
          /\ pc = "done" =>
                /\ Len(new_objects) = 1
                /\ new_objects[1].faces = <<Quad>>
                /\ new_objects[1].tot_loops = 4
    /\ obj_lines = ScenarioBIndexReuse =>
          /\ pc = "materials" => faces[1].inv = TRUE
          /\ pc = "done" =>
                \A k \in 1..Len(new_objects[1].faces) :
                    Len(new_objects[1].faces[k].loc) = 3

(* C7 as written: the quad of scenario B is flagged when its directive     *)
(* ends and the mesh has two triangles over the four positions.            *)
C7_Original ==
    obj_lines = ScenarioB =>
       /\ faces[1].inv = TRUE
       /\ pc = "done" =>
             /\ Len(new_objects[1].faces) = 2
             /\ \A k \in 1..2 : Len(new_objects[1].faces[k].loc) = 3
             /\ UNION {Range(new_objects[1].faces[k].loc) : k \in 1..2}
                   = 0..3

C7_Witness ==
    /\ pc = "done"
    /\ obj_lines = ScenarioB
    /\ verts_loc[1] = verts_loc[3]
    /\ new_objects[1].faces = <<Quad>>

(***************************************************************************)
(* C8.  Scenario A: v 0 0 0, v 1 0 0, v 0 1 0, f 1 2 3 yields exactly one  *)
(* mesh with three positions and one triangular face [0,1,2] whose normal, *)
(* texture coordinate and colour index sequences are empty, and no normal, *)
(* texture coordinate or colour data is attached to the mesh.              *)
(***************************************************************************)
ScenarioA == Append(VertLines, FLine(<<1, 2, 3>>))

C8_ScenarioA ==
    (pc = "done" /\ obj_lines = ScenarioA) =>
       /\ Len(new_objects) = 1
       /\ new_objects[1].vertices = <<<<0, 0, 0>>, <<1, 0, 0>>, <<0, 1, 0>>>>
       /\ Len(new_objects[1].faces) = 1
       /\ new_objects[1].faces[1].loc = <<0, 1, 2>>
       /\ new_objects[1].faces[1].nor = <<>>
       /\ new_objects[1].faces[1].tex = <<>>
       /\ new_objects[1].faces[1].col = <<>>
       /\ new_objects[1].verts_nor = <<>> /\ new_objects[1].verts_tex = <<>>
       /\ ~new_objects[1].use_normals
       /\ ~new_objects[1].use_uv
       /\ ~new_objects[1].use_col

C8_Witness ==
    /\ pc = "done"
    /\ obj_lines = ScenarioA
    /\ use_split_objects
    /\ Len(new_objects) = 1
    /\ new_objects[1].tot_loops = 3

(***************************************************************************)
(* C9 as written.  Scenario D: in a block of a material the geometry uses, *)
(* `illum 4` derives transparency, reflection, glass and raytrace and no   *)
(* other flag, and when the library has been read these flags have been    *)
(* applied to that material.                                               *)
(***************************************************************************)
IsIllum4(ln) == ln.start = "illum" /\ ln.toks = <<Num(4)>>

IsNewmtl(ln, name) == ln.start = "newmtl" /\ ln.toks = <<name>>

InBlock(L, i, name) ==
    \E b \in 1..(i - 1) :
        /\ IsNewmtl(L[b], name)
        /\ \A k \in (b + 1)..i : L[k].start # "newmtl"

Illum4Only(L, name) ==
    /\ \E i \in 1..Len(L) : InBlock(L, i, name) /\ IsIllum4(L[i])
    /\ \A i \in 1..Len(L) :
          (InBlock(L, i, name) /\ L[i].start = "illum") => IsIllum4(L[i])

FlagsOf(c) ==
    {f \in {"highlight", "reflection", "transparency", "glass", "fresnel",
            "raytrace"} :
        \/ f = "highlight" /\ c.do_highlight
        \/ f = "reflection" /\ c.do_reflection
        \/ f = "transparency" /\ c.do_transparency
        \/ f = "glass" /\ c.do_glass
        \/ f = "fresnel" /\ c.do_fresnel
        \/ f = "raytrace" /\ c.do_raytrace}

C9_Derived ==
    (/\ pc = "mtl_read" /\ pc' = "mtl_read"
     /\ Len(lib_lines') = Len(lib_lines) + 1
     /\ IsIllum4(lib_lines'[Len(lib_lines')])
     /\ Truthy(mtl.mat) /\ FlagsOf(mtl) = {}) =>
        FlagsOf(mtl') = {"transparency", "reflection", "glass", "raytrace"}

C9_Applied ==
    (/\ pc = "mtl_read" /\ pc' = "mtl_open"
     /\ "M" \in DOMAIN materials
     /\ Illum4Only(lib_lines, "M")) =>
        /\ materials'["M"].use_transparency
        /\ materials'["M"].transparency_method = "RAYTRACE"
        /\ materials'["M"].mirror_use
        /\ materials'["M"].ior = "1.5"
        /\ ~materials'["M"].fresnel
        /\ ~materials'["M"].specular_one

C9_Original == [][C9_Derived /\ C9_Applied]_vars

(***************************************************************************)
(* C10 as written.  A failure while a material library or a skeleton       *)
(* library is read never aborts load(): the step that fails leaves the     *)
(* library, not the import.                                                *)
(***************************************************************************)
C10_LibraryStep == pc \in {"mtl_read", "arl_read"} => pc' # "raised"

C10_Original == [][C10_LibraryStep]_vars


(***************************************************************************)
(* SpecBw: three vertices, then bw lines (two pairs, five pairs, a list    *)
(* holding a 1-tuple, no payload, two bare numbers) and a triangle.        *)
(***************************************************************************)
MaxLinesBw == 3

Weights(n) == [i \in 1..n |-> <<i - 1, 1>>]

LinesBw ==
    <<Line("bw", <<Weights(2)>>, FALSE),
      Line("bw", <<Weights(5)>>, FALSE),
      Line("bw", << <<<<1>>>> >>, FALSE),
      Line("bw", <<>>, FALSE),
      Line("bw", <<Num(1), Num(2)>>, FALSE),
      FLine(<<1, 2, 3>>)>>

ParseBw ==
    /\ Len(obj_lines) < Len(VertLines) + MaxLinesBw
    /\ IF Len(obj_lines) < Len(VertLines)
       THEN ReadLine(VertLines[Len(obj_lines) + 1])
       ELSE \E i \in 1..Len(LinesBw) : ReadLine(LinesBw[i])

InitBw ==
    InitLoad /\ \E split \in BOOLEAN : Options(TRUE, TRUE, split, split, FALSE)

NextBw == ParseBw \/ Pipeline

SpecBw == InitBw /\ [][NextBw]_vars

(***************************************************************************)
(* C11.  A bw line whose payload is not a list of (integer, float) pairs   *)
(* appends an empty list to the bone-weight pool and parsing continues; a  *)
(* payload that is such a list is appended cut to at most 4 pairs.         *)
(***************************************************************************)
ReadsBw ==
    /\ pc = "parse"
    /\ Len(obj_lines') = Len(obj_lines) + 1
    /\ obj_lines'[Len(obj_lines')].start = "bw"

IsPairList(ln) ==
    /\ Len(ln.toks) = 1
    /\ ~ln.cont
    /\ \A i \in 1..Len(ln.toks[1]) : Len(ln.toks[1][i]) = 2

C11_Step ==
    ReadsBw =>
    LET ln == obj_lines'[Len(obj_lines')]
    IN /\ pc' = "parse"
       /\ Len(verts_bw') = Len(verts_bw) + 1
       /\ Len(verts_bw'[Len(verts_bw')]) =
             (IF IsPairList(ln)
              THEN (IF Len(ln.toks[1]) < 4 THEN Len(ln.toks[1]) ELSE 4)
              ELSE 0)

C11_Original == [][C11_Step]_vars


(***************************************************************************)
(* C12 as amended.  At the end of the geometry parse every record created  *)
(* by an f directive has each of its normal, texcoord and color sequences  *)
(* either empty or as long as its position sequence; a record created by   *)
(* an l directive has the one-entry polyline tag as its normal sequence,   *)
(* whatever the number of its positions, and no texcoords or colors.       *)
(***************************************************************************)
ParseEnded == pc = "materials"

IsCreator(ln) == ln.start = "f" \/ ln.start = "l"

Creators == SelectSeq(obj_lines, IsCreator)

Aligned(face, field) ==
    face[field] = <<>> \/ Len(face[field]) = Len(face.loc)

PolylineTag == <<<<1>>>>

HasArity(pool, n) == \A i \in 1..Len(pool) : Len(pool[i]) = n

C13_Original ==
    /\ HasArity(verts_loc, 3)
    /\ HasArity(verts_nor, 3)
    /\ HasArity(verts_tex, 2)
    /\ HasArity(verts_col, 4)


(***************************************************************************)
(* C14.  A skeleton library that declares n >= 1 bones and holds at least  *)
(* n complete (name, parent, head) triples produces an armature of exactly *)
(* n bones: what follows the n-th triple is not turned into bones.         *)
(***************************************************************************)
ArmatureBuilt == pc = "arl_read" /\ pc' = "arl_open"

C14_Step ==
    ArmatureBuilt =>
    LET declared == arl.bone_count
        built == new_armatures'[Len(new_armatures')]
    IN (/\ declared # <<>>
        /\ declared[1] >= 1
        /\ Len(arl.bone_heads) >= declared[1]) =>
          Len(built.bones) = declared[1]

C14_Original == [][C14_Step]_vars


(***************************************************************************)
(* C15.  split_mesh, handed a face list that is not empty, leaves the      *)
(* position indices of the caller's face records and the caller's vertex   *)
(* pool as they were, and returns no group whose face list or pool is the  *)
(* caller's own list (in split mode and in single-group mode).             *)
(***************************************************************************)
C15_Step ==
    (SplitStep /\ faces # <<>>) =>
       /\ Len(faces') = Len(faces)
       /\ \A k \in 1..Len(faces) : faces'[k].loc = faces[k].loc
       /\ verts_loc' = verts_loc
       /\ \A j \in 1..Len(groups') : ~groups'[j].shared

C15_Original == [][C15_Step]_vars


(***************************************************************************)
(* SpecResplit: the files of SpecSplit up to split_mesh; then one of the   *)
(* groups returned, its pool, its bone weights and its faces, is handed to *)
(* split_mesh again under the same options.                                *)
(***************************************************************************)
Feedback ==
    /\ pc = "mesh"
    /\ \E j \in 1..Len(groups) :
          /\ verts_loc' = groups[j].verts
          /\ verts_bw' = groups[j].bw
          /\ faces' = groups[j].faces
          /\ groups' = <<groups[j]>>
    /\ pc' = "split"
    /\ UNCHANGED <<error, obj_lines, optVars, verts_nor, verts_tex, verts_col,
                   libVars, ctxVars, nurbsVars, faceVars, context_multi_line,
                   vec, g_idx, f_idx, edges, tot_loops, smooth_group_users,
                   fgon_edges, new_objects, libStateVars>>

NextResplit ==
    \/ ParseSplit
    \/ EndOfFile
    \/ CreateMaterials
    \/ CreateArmatures
    \/ SplitMesh
    \/ Feedback

SpecResplit == InitSplit /\ [][NextResplit]_vars

(***************************************************************************)
(* C16.  split_mesh applied to one group of its own output, under the same *)
(* split mode, completes and returns exactly one group, with the pool and  *)
(* the position indices of every face identical to those of that group.    *)
(***************************************************************************)
FedBack == pc = "split" /\ groups # <<>>

C16_Step ==
    (FedBack /\ pc' # pc) =>
       /\ pc' = "mesh"
       /\ Len(groups') = 1
       /\ groups'[1].verts = groups[1].verts
       /\ Len(groups'[1].faces) = Len(groups[1].faces)
       /\ \A k \in 1..Len(groups[1].faces) :
             groups'[1].faces[k].loc = groups[1].faces[k].loc

C16_Idempotent == [][C16_Step]_vars

(* In split mode, the group of object A, made of two faces that are not    *)
(* adjacent in the file and share two vertices, was split again.           *)
C16_Witness ==
    /\ pc = "mesh"
    /\ use_split_objects
    /\ Len(groups) = 1
    /\ groups[1].key = "A"
    /\ faces = groups[1].faces
    /\ verts_loc = groups[1].verts
    /\ Len(faces) = 2
    /\ faces[1].loc = <<0, 1, 2>>
    /\ faces[2].loc = <<0, 1>>
    /\ Len(obj_lines) = 8


(***************************************************************************)
(* C17 as amended.  Nothing validates the face list between the end of the *)
(* parse and split_mesh: the list handed to split_mesh is the parsed one,  *)
(* single-vertex, polyline and flagged records included.  The validator    *)
(* runs inside create_mesh, once for each group, so that the faces of      *)
(* every mesh built have three or more positions, are no polylines and     *)
(* carry no invalid flag.                                                  *)
(***************************************************************************)
BetweenParseAndSplit ==
    pc \in {"materials", "mtl_open", "mtl_read", "armatures", "arl_open",
            "arl_read"}

Validated(face) ==
    /\ Len(face.loc) # 1
    /\ Len(face.nor) # 1
    /\ ~face.inv

MeshesValidated ==
    \A m \in 1..Len(new_objects) :
       \A k \in 1..Len(new_objects[m].faces) :
          /\ Validated(new_objects[m].faces[k])
          /\ Len(new_objects[m].faces[k].loc) >= 3

C17_Step ==
    /\ BetweenParseAndSplit => faces' = faces
    /\ MeshesValidated'

BlockStart(L) ==
    CHOOSE b \in 1..Len(L) :
        /\ L[b].start = "newmtl"
        /\ \A k \in (b + 1)..Len(L) : L[k].start # "newmtl"

IllumLines(L) == {i \in (BlockStart(L) + 1)..Len(L) : L[i].start = "illum"}

LastIllum(L) ==
    LET last == CHOOSE i \in IllumLines(L) : \A j \in IllumLines(L) : j <= i
    IN NumberOf(L[last].toks[1])

FinalizesBlock ==
    /\ pc = "mtl_read" /\ pc' = "mtl_read"
    /\ Len(lib_lines') = Len(lib_lines) + 1
    /\ lib_lines'[Len(lib_lines')].start = "newmtl"
    /\ Truthy(mtl.mat)

C18_Step ==
    (FinalizesBlock /\ IllumLines(lib_lines) # {}) =>
    LET alone == IllumFlags(MtlStart, LastIllum(lib_lines))
        m == materials'[mtl.mat]
    IN /\ m.specular_one = alone.do_highlight
       /\ m.mirror_use = alone.do_reflection
       /\ m.fresnel = alone.do_fresnel

C18_Original == [][C18_Step]_vars


(***************************************************************************)
(* C19.  A texture-map line read for a material adds a texture slot whose  *)
(* offset is given by the values of the map's -o group and whose scale by  *)
(* those of its -s group, wherever the group stands before the path: as    *)
(* the last group, as the only group, or before another group.             *)
(***************************************************************************)
ReadsMap ==
    /\ pc = "mtl_read" /\ pc' = "mtl_read"
    /\ Len(lib_lines') = Len(lib_lines) + 1
    /\ MapType(lib_lines'[Len(lib_lines')].start) # ""
    /\ Truthy(mtl.mat)

(* The values that follow the flag, up to the next flag or the path.       *)
GroupOf(toks, flag) ==
    IF \E i \in 1..(Len(toks) - 1) : toks[i] = flag
    THEN LET i == CHOOSE a \in 1..(Len(toks) - 1) :
                     /\ toks[a] = flag
                     /\ \A b \in (a + 1)..(Len(toks) - 1) : toks[b] # flag
             stop == CHOOSE j \in (i + 1)..Len(toks) :
                        /\ j = Len(toks) \/ StartsWithDash(toks[j])
                        /\ \A b \in (i + 1)..(j - 1) : ~StartsWithDash(toks[b])
         IN SubSeq(toks, i + 1, stop - 1)
    ELSE <<>>

C19_Step ==
    ReadsMap =>
    LET toks == lib_lines'[Len(lib_lines')].toks
        slots == materials'[mtl.mat].textures
        mtex == slots[Len(slots)]
    IN /\ Len(slots) = Len(materials[mtl.mat].textures) + 1
       /\ mtex.offset = MapVector(<<0, 0, 0>>, GroupOf(toks, "-o"))
       /\ mtex.scale = MapVector(<<1, 1, 1>>, GroupOf(toks, "-s"))

C19_Original == [][C19_Step]_vars


(***************************************************************************)
(* SpecMat: three vertices, then usemtl and o lines and triangles, with    *)
(* the split options on or off.                                            *)
(***************************************************************************)
MaxLinesMat == 4

LinesMat ==
    {Line("usemtl", <<"M">>, FALSE), Line("usemtl", <<"N">>, FALSE),
     Line("o", <<"A">>, FALSE), Line("o", <<"B">>, FALSE),
     FLine(<<1, 2, 3>>)}

ParseMat ==
    \E ln \in (IF Len(obj_lines) < Len(VertLines)
               THEN {VertLines[Len(obj_lines) + 1]} ELSE LinesMat) :
        Len(obj_lines) < Len(VertLines) + MaxLinesMat /\ ReadLine(ln)

NextMat == ParseMat \/ Pipeline

SpecMat == InitSplit /\ [][NextMat]_vars

(***************************************************************************)
(* C20.  Every group returned by split_mesh, in split mode and in          *)
(* single-group mode, has as its material subset exactly the material      *)
(* names that the faces of the group refer to.                             *)
(***************************************************************************)
UsedMaterials(g) == {g.faces[k].mat : k \in 1..Len(g.faces)} \ {None}

C20_Step ==
    SplitStep =>
       \A j \in 1..Len(groups') :
          Range(groups'[j].mats) = UsedMaterials(groups'[j])

C20_Original == [][C20_Step]_vars


(***************************************************************************)
(* C21.  For every group returned by split_mesh the normal, texcoord and   *)
(* color flag of the group is true exactly when some face of the group     *)
(* carries a real (non-absent) reference of that kind.                     *)
(***************************************************************************)
HasReal(face, field) ==
    \E c \in 1..Len(face[field]) : face[field][c] # <<>>

AnyReal(g, field) == \E k \in 1..Len(g.faces) : HasReal(g.faces[k], field)

C21_Step ==
    SplitStep =>
       \A j \in 1..Len(groups') :
          /\ groups'[j].use_vnor <=> AnyReal(groups'[j], "nor")
          /\ groups'[j].use_vtex <=> AnyReal(groups'[j], "tex")
          /\ groups'[j].use_vcol <=> AnyReal(groups'[j], "col")

C21_Original == [][C21_Step]_vars


(***************************************************************************)
(* SpecCom: comment lines and blank lines between whole directives and     *)
(* between the lines of a continued v, f or l directive.                   *)
(***************************************************************************)
MaxLinesCom == 4

LinesCom ==
    {Line("v", <<Num(0), Num(0), Num(0)>>, FALSE),
     Line("v", <<Num(0), Num(0)>>, TRUE),
     Line("", <<Num(0)>>, FALSE),
     Line("f", <<Vert(-1), Vert(-1)>>, TRUE),
     Line("l", <<Vert(-1)>>, TRUE),
     Line("", <<Vert(-1)>>, FALSE),
     Line("#", <<>>, FALSE),
     Line("", <<>>, FALSE)}

ParseCom == \E ln \in LinesCom : Len(obj_lines) < MaxLinesCom /\ ReadLine(ln)

NextCom == ParseCom \/ Pipeline

SpecCom == InitIdx /\ [][NextCom]_vars

(***************************************************************************)
(* C22.  A comment line or a blank line is skipped in every parser state:  *)
(* reading it changes no pool, no face record and no context value and     *)
(* raises no error, also while a continuation is pending.                  *)
(***************************************************************************)
ReadsComment ==
    /\ pc = "parse"
    /\ Len(obj_lines') = Len(obj_lines) + 1
    /\ IsBlankOrComment(obj_lines'[Len(obj_lines')])

C22_Step == ReadsComment => (pc' = "parse" /\ UNCHANGED parseVars)

C22_Original == [][C22_Step]_vars


(***************************************************************************)
(* SpecNgon: three vertices, then context lines and polygons of three and  *)
(* four corners, with and without a repeated edge, whose corners name      *)
(* positions only, positions and normals, or positions, texture            *)
(* coordinates and normals (a different one at every corner).              *)
(***************************************************************************)
MaxLinesNgon == 3

LinesNgon ==
    {Line("usemtl", <<"M">>, FALSE), Line("s", <<"1">>, FALSE),
     Line("o", <<"A">>, FALSE),
     Line("f", <<VertTN(1, 1, 1), VertTN(2, 2, 2), VertTN(1, 3, 3),
                 VertTN(2, 4, 4)>>, FALSE),
     Line("f", <<VertN(1, 1), VertN(2, 2), VertN(1, 3), VertN(2, 4)>>, FALSE),
     FLine(<<1, 2, 1, 2>>), FLine(<<1, 2, 3>>)}

ParseNgon ==
    \E ln \in (IF Len(obj_lines) < Len(VertLines)
               THEN {VertLines[Len(obj_lines) + 1]} ELSE LinesNgon) :
        Len(obj_lines) < Len(VertLines) + MaxLinesNgon /\ ReadLine(ln)

NextNgon == ParseNgon \/ Pipeline

SpecNgon == InitTri /\ [][NextNgon]_vars

(***************************************************************************)
(* C23.  When the validator pass tessellates a flagged face of more than   *)
(* three positions, the face is removed, the faces kept before it stay as  *)
(* they were, and each face appended for it has exactly three positions    *)
(* taken from three corners of the parent, the material, smooth group and  *)
(* object of the parent, an unset invalid flag, and normal, texcoord and   *)
(* color entries taken from the same three corners (or none, where the     *)
(* parent has none); the pass moves on to the face before the parent, so   *)
(* the appended triangles are not visited by it.                           *)
(***************************************************************************)
AtCorners(s, a, b, c) == IF s = <<>> THEN <<>> ELSE <<s[a], s[b], s[c]>>

TriangleOf(tri, face) ==
    /\ Len(tri.loc) = 3
    /\ tri.mat = face.mat /\ tri.sg = face.sg /\ tri.ob = face.ob
    /\ tri.inv = FALSE
    /\ \E a, b, c \in 1..Len(face.loc) :
          /\ tri.loc = <<face.loc[a], face.loc[b], face.loc[c]>>
          /\ tri.nor = AtCorners(face.nor, a, b, c)
          /\ tri.tex = AtCorners(face.tex, a, b, c)
          /\ tri.col = AtCorners(face.col, a, b, c)

C23_Step ==
    VisitsFace =>
    LET fs == groups[g_idx].faces
        fs2 == groups'[g_idx].faces
        face == fs[f_idx]
    IN (face.inv /\ Len(face.loc) > 3) =>
          /\ Len(fs2) >= Len(fs) - 1
          /\ SubSeq(fs2, 1, Len(fs) - 1) = RemoveAt(fs, f_idx)
          /\ \A k \in Len(fs)..Len(fs2) : TriangleOf(fs2[k], face)
          /\ f_idx' = f_idx - 1
          /\ tot_loops' = tot_loops + 3 * (Len(fs2) - (Len(fs) - 1))

C23_TrianglesInherit == [][C23_Step]_vars

(* The pass is over and a flagged quad with texture coordinates and        *)
(* normals was replaced by two triangles that differ in their normals.     *)
C23_Witness ==
    /\ pc = "validate" /\ f_idx = 0
    /\ Len(groups[g_idx].faces) = 2
    /\ \A k \in 1..2 :
          /\ Len(groups[g_idx].faces[k].nor) = 3
          /\ Len(groups[g_idx].faces[k].tex) = 3
          /\ ~groups[g_idx].faces[k].inv
    /\ groups[g_idx].faces[1].nor # groups[g_idx].faces[2].nor


(***************************************************************************)
(* SpecLine: three vertices, then l directives of no, one, two and three   *)
(* positions, whole and continued, and f directives of two and three       *)
(* positions, with polylines requested or not.                             *)
(***************************************************************************)
MaxLinesLine == 3

LinesLine ==
    {Line("l", <<Vert(1), Vert(2), Vert(3)>>, FALSE),
     Line("l", <<Vert(1), Vert(2)>>, TRUE),
     Line("", <<Vert(3), Vert(1)>>, FALSE),
     Line("l", <<>>, TRUE),
     Line("l", <<Vert(3)>>, FALSE),
     FLine(<<1, 2>>), FLine(<<1, 2, 3>>)}

ParseLine ==
    \E ln \in (IF Len(obj_lines) < Len(VertLines)
               THEN {VertLines[Len(obj_lines) + 1]} ELSE LinesLine) :
        Len(obj_lines) < Len(VertLines) + MaxLinesLine /\ ReadLine(ln)

InitLine ==
    InitLoad /\ \E e \in BOOLEAN : Options(e, TRUE, FALSE, FALSE, FALSE)

NextLine == ParseLine \/ Pipeline

SpecLine == InitLine /\ [][NextLine]_vars

(***************************************************************************)
(* C24.  In the validator pass a face record with exactly one normal slot  *)
(* or exactly two positions is a polyline: the visit removes it from the   *)
(* face list and raises nothing; when polylines are requested it adds the  *)
(* edges between its consecutive positions, in order (n - 1 edges for n    *)
(* positions), after the edges collected so far, and when they are not     *)
(* requested it adds no edge.  It counts no loop.                          *)
(***************************************************************************)
IsPolyline(face) == Len(face.nor) = 1 \/ Len(face.loc) = 2

C24_Step ==
    (pc = "validate" /\ f_idx >= 1 /\ IsPolyline(groups[g_idx].faces[f_idx])) =>
    LET fs == groups[g_idx].faces
        loc == fs[f_idx].loc
        n == Len(loc)
        added == IF use_edges /\ n >= 1 THEN n - 1 ELSE 0
    IN /\ pc' = "validate"
       /\ groups'[g_idx].faces = RemoveAt(fs, f_idx)
       /\ Len(edges') = Len(edges) + added
       /\ SubSeq(edges', 1, Len(edges)) = edges
       /\ \A i \in 1..added : edges'[Len(edges) + i] = <<loc[i], loc[i + 1]>>
       /\ tot_loops' = tot_loops

C24_PolylineEdges == [][C24_Step]_vars

(* The pass is over, polylines were requested, and a polyline of four      *)
(* positions written on two lines gave its three edges and no face.        *)
C24_Witness ==
    /\ pc = "validate" /\ f_idx = 0
    /\ use_edges
    /\ groups[g_idx].faces = <<>>
    /\ edges = <<<<0, 1>>, <<1, 2>>, <<2, 0>>>>


(***************************************************************************)
(* SpecNurbs: one vertex, then the lines of curve blocks: cstype, deg,     *)
(* curv, parm (whole and continued) and end, and a two-corner f line.      *)
(***************************************************************************)
MaxLinesNurbs == 5

LinesNurbs ==
    <<Line("cstype", <<"bspline">>, FALSE),
      Line("cstype", <<"rat", "bspline">>, FALSE),
      Line("deg", <<Num(1)>>, FALSE),
      Line("deg", <<Num(1), Num(1)>>, FALSE),
      Line("deg", <<>>, FALSE),
      Line("curv", <<Num(0), Num(1), Num(1), Num(-1)>>, FALSE),
      FLine(<<1, 1>>),
      Line("parm", <<"u", Num(0), Num(0)>>, TRUE),
      Line("", <<Num(1), Num(1)>>, FALSE),
      Line("parm", <<"v", Num(0)>>, FALSE),
      Line("end", <<>>, FALSE)>>

ParseNurbs ==
    /\ Len(obj_lines) < 1 + MaxLinesNurbs
    /\ IF Len(obj_lines) < 1 THEN ReadLine(VertLines[1])
       ELSE \E i \in 1..Len(LinesNurbs) : ReadLine(LinesNurbs[i])

NextNurbs == ParseNurbs \/ Pipeline

SpecNurbs == InitTri /\ [][NextNurbs]_vars

(***************************************************************************)
(* C26.  create_nurbs builds a curve only for a block whose declared type  *)
(* is exactly bspline, that has a single degree, no v-parameter values and *)
(* a control-point list that is not empty; for any other block it adds no  *)
(* object and returns without raising; the spline order of a curve it      *)
(* builds is the degree plus one.                                          *)
(***************************************************************************)
Accepted(cn) ==
    /\ Get(cn, "cstype", None) = "bspline"
    /\ Len(Get(cn, "deg", <<3>>)) = 1
    /\ Get(cn, "parm_v", <<>>) = <<>>
    /\ Get(cn, "curv_idx", <<>>) # <<>>

NurbsStep == pc = "mesh" /\ g_idx > Len(groups)

C26_Step ==
    (NurbsStep /\ Len(nurbs) = 1) =>
       IF Accepted(nurbs[1])
       THEN pc' = "done" =>
               /\ Len(new_objects') = Len(new_objects) + 1
               /\ new_objects'[Len(new_objects')].order_u =
                     Get(nurbs[1], "deg", <<3>>)[1] + 1
       ELSE pc' = "done" /\ new_objects' = new_objects

C26_Original == [][C26_Step]_vars


(***************************************************************************)
(* SpecCont: the first line of a continued directive of every kind, and    *)
(* lines that carry on or end a continued directive.                       *)
(***************************************************************************)
MaxLinesCont == 4

LinesCont ==
    <<Line("v", <<Num(0), Num(0)>>, TRUE),
      Line("vn", <<Num(0), Num(0)>>, TRUE),
      Line("vt", <<Num(0)>>, TRUE),
      Line("vc", <<Num(0), Num(0), Num(0)>>, TRUE),
      Line("bw", <<Weights(1)>>, TRUE),
      Line("f", <<Vert(-1), Vert(-1)>>, TRUE),
      Line("l", <<Vert(-1)>>, TRUE),
      Line("curv", <<Num(0), Num(1), Num(1)>>, TRUE),
      Line("parm", <<"u", Num(0)>>, TRUE),
      Line("", <<Num(1)>>, TRUE),
      Line("", <<Num(1)>>, FALSE)>>

ParseCont ==
    \E i \in 1..Len(LinesCont) :
        Len(obj_lines) < MaxLinesCont /\ ReadLine(LinesCont[i])

NextCont == ParseCont \/ Pipeline

SpecCont == InitIdx /\ [][NextCont]_vars

(***************************************************************************)
(* C25.  A directive written on several lines with continuation markers is *)
(* read as the directive written on one line, for every kind that supports *)
(* continuation (v, vn, vt, vc, bw, f, l, curv, parm).  In particular the   *)
(* first line of such a directive, when its tokens are well formed, is     *)
(* accepted and leaves the directive of its kind pending for the lines     *)
(* that follow.                                                            *)
(***************************************************************************)
ContinuedKinds == {"v", "vn", "vt", "vc", "bw", "f", "l", "curv", "parm"}

ReadsContinued ==
    /\ pc = "parse"
    /\ context_multi_line = ""
    /\ Len(obj_lines') = Len(obj_lines) + 1
    /\ obj_lines'[Len(obj_lines')].start \in ContinuedKinds
    /\ obj_lines'[Len(obj_lines')].cont

C25_Step ==
    ReadsContinued =>
       /\ pc' = "parse"
       /\ context_multi_line' = obj_lines'[Len(obj_lines')].start

C25_Original == [][C25_Step]_vars


(***************************************************************************)
(* C27.  At the end of the geometry parse, whatever the line sequence was  *)
(* (also when the continuation of a face was cut short by a v, vn, vt, vc  *)
(* or bw line), the normal, texcoord or color sequence of a record created *)
(* by an f directive is non-empty only if a vertex of that face carried a  *)
(* real reference of that kind.  Stated for the files that do not end      *)
(* inside a continuation.                                                  *)
(***************************************************************************)
ClearedUnlessReal(face, field) == face[field] # <<>> => HasReal(face, field)

C27_Original ==
    (ParseEnded /\ context_multi_line = "") =>
       \A i \in 1..Len(faces) :
          (i <= Len(Creators) /\ Creators[i].start = "f") =>
             /\ ClearedUnlessReal(faces[i], "nor")
             /\ ClearedUnlessReal(faces[i], "tex")
             /\ ClearedUnlessReal(faces[i], "col")


(***************************************************************************)
(* C28.  Every material that a newmtl line of a library opens and that the *)
(* geometry uses has been finalized when the reading of that library ends, *)
(* also when its block is the last or the only block of the library.       *)
(***************************************************************************)
Opened(L, name) == \E i \in 1..Len(L) : IsNewmtl(L[i], name)

LibraryEnds == pc = "mtl_read" /\ pc' = "mtl_open"

C28_Step ==
    LibraryEnds =>
       \A name \in DOMAIN materials :
          Opened(lib_lines, name) => materials'[name].use_raytrace_set

C28_Original == [][C28_Step]_vars


(***************************************************************************)
(* SpecEdge: three vertices, then faces of two to five positions written   *)
(* on one line or over several lines, with and without a repeated position *)
(* and a repeated edge, blank lines, and a v line that can cut a           *)
(* continuation short.                                                     *)
(***************************************************************************)
MaxLinesEdge == 4

LinesEdge ==
    {Line("f", <<Vert(1), Vert(2)>>, TRUE),
     Line("f", <<Vert(1), Vert(1), Vert(2), Vert(3)>>, FALSE),
     FLine(<<1, 2, 3>>), FLine(<<1, 2, 1, 2>>),
     Line("", <<Vert(1)>>, TRUE),
     Line("", <<Vert(3)>>, FALSE),
     Line("", <<Vert(2), Vert(3)>>, FALSE),
     Line("", <<>>, FALSE),
     Line("v", <<Num(0), Num(0), Num(0)>>, FALSE)}

ParseEdge ==
    \E ln \in (IF Len(obj_lines) < Len(VertLines)
               THEN {VertLines[Len(obj_lines) + 1]} ELSE LinesEdge) :
        Len(obj_lines) < Len(VertLines) + MaxLinesEdge /\ ReadLine(ln)

NextEdge == ParseEdge \/ Pipeline

SpecEdge == InitTri /\ [][NextEdge]_vars

(***************************************************************************)
(* C29.  When an f directive ends on a line without a continuation marker  *)
(* and its face has three or more positions, the invalid flag stored in    *)
(* the face record is set if and only if the cyclic sequence of the        *)
(* normalized edge keys of the face holds some key twice: the first pass   *)
(* over repeated positions hides no repeated edge and flags nothing by     *)
(* itself.                                                                 *)
(***************************************************************************)
EndsFace ==
    /\ pc = "parse" /\ pc' = "parse"
    /\ Len(obj_lines') = Len(obj_lines) + 1
    /\ LET ln == obj_lines'[Len(obj_lines')]
       IN /\ ~ln.cont
          /\ \/ ln.start = "f" /\ context_multi_line = ""
             \/ ln.start = "" /\ ln.toks # <<>> /\ context_multi_line = "f"

C29_Step ==
    EndsFace =>
    LET face == faces'[Len(faces')]
    IN Len(face.loc) >= 3 => (face.inv <=> HasRepeatedEdge(face.loc))

C29_FlagIffRepeatedEdge == [][C29_Step]_vars

(* Two faces of three positions or more were stored: one written over      *)
(* three lines that repeats an edge and is flagged, one that repeats a     *)
(* position but no edge and is not flagged.                                *)
C29_Witness ==
    /\ pc = "parse" /\ context_multi_line = ""
    /\ Len(faces) = 2
    /\ obj_lines[4].cont /\ obj_lines[5].cont
    /\ Len(faces[1].loc) >= 3 /\ faces[1].inv
    /\ Len(faces[2].loc) >= 3 /\ ~faces[2].inv
    /\ HasRepeatedIndex(faces[2].loc)


(***************************************************************************)
(* SpecOpen: three vertices, then faces written on one line or left open   *)
(* by a continuation marker that nothing follows, with the split options   *)
(* on or off.                                                              *)
(***************************************************************************)
MaxLinesOpen == 3

LinesOpen ==
    {Line("f", <<>>, TRUE),
     Line("f", <<Vert(1), Vert(2)>>, TRUE),
     Line("", <<Vert(3)>>, FALSE),
     FLine(<<1, 2, 3>>), FLine(<<1, 2, 1, 2>>),
     Line("v", <<Num(0), Num(0), Num(0)>>, FALSE)}

ParseOpen ==
    \E ln \in (IF Len(obj_lines) < Len(VertLines)
               THEN {VertLines[Len(obj_lines) + 1]} ELSE LinesOpen) :
        Len(obj_lines) < Len(VertLines) + MaxLinesOpen /\ ReadLine(ln)

NextOpen == ParseOpen \/ Pipeline

SpecOpen == InitSplit /\ [][NextOpen]_vars

(***************************************************************************)
(* C30.  When the validator loop of create_mesh is over, whatever face     *)
(* list the parse produced (a face left open by a continuation marker at   *)
(* the end of the file included), every face that remains has three or     *)
(* more positions, tot_loops is the sum of the position counts of the      *)
(* remaining faces, and the "bad face" exception is never raised.          *)
(***************************************************************************)
RECURSIVE LoopCount(_)
LoopCount(fs) ==
    IF fs = <<>> THEN 0 ELSE Len(Head(fs).loc) + LoopCount(Tail(fs))

PassOver == pc = "validate" /\ f_idx = 0

C30_Original ==
    /\ PassOver =>
          /\ \A k \in 1..Len(groups[g_idx].faces) :
                Len(groups[g_idx].faces[k].loc) >= 3
          /\ tot_loops = LoopCount(groups[g_idx].faces)
    /\ error # "bad face"

====
